---- MODULE Spec2Model ----
(***************************************************************************)
(* Model of the detection engine of src/frontend/js/detection.js (class    *)
(* AIDetectionSystem): the suspiciousness scorer, the violation pathways,  *)
(* the misclassified-object heuristic, the per-type hysteresis tracker and *)
(* the focus state machine.                                                *)
(*                                                                         *)
(* Conventions.                                                            *)
(*  - Scores and confidences are integers in percent (0.65 is 65).         *)
(*  - Times are milliseconds, as Date.now() returns them; a null timestamp *)
(*    is Null (Date.now() is never 0, and the code tests timestamps for    *)
(*    truthiness).                                                         *)
(*  - A handler runs to completion between two awaits, so one handler is   *)
(*    one action; an exception is the flag "thrown" of the context that is *)
(*    threaded through the handler's statements: a statement that follows  *)
(*    a throw is skipped up to the enclosing catch.                        *)
(*  - Class names are the detector's labels, which are lower case already; *)
(*    String.includes is Includes below.                                   *)
(*  - Fields that nothing reads back (statistics.*, lastPersonDetection,   *)
(*    frameCounter, lastFacePosition) are left out.                        *)
(***************************************************************************)
EXTENDS Integers, Sequences, FiniteSets, TLC

VARIABLES
    eng,        \* the fields of the AIDetectionSystem instance
    now,        \* the value Date.now() returned to the last handler
    emitted,    \* the violations the last handler passed to triggerViolation
    delivered,  \* what a recording sink has received: type, severity, time
    ticks,      \* number of handler runs since construction
    runs,       \* the executions of runAIDetection that have not returned
    returned,   \* what the last call of getTrackingStatus returned
    escaped,    \* an exception has left a timer callback
    timers      \* the intervals scheduled in the event loop, by callback

\* What surrounds the engine: the event loop and the caller
host == <<runs, returned, escaped, timers>>

vars ==
    <<eng, now, emitted, delivered, ticks, runs, returned, escaped, timers>>

---------------------------------------------------------------------------
(* Bounds of the exploration *)

MaxTicks == 6
MaxStreamTicks == 8
MaxStatusTicks == 4
MaxCooldownTicks == 102
MaxFaultTicks == 6
MaxPathwayTicks == 4
MaxUnknownTicks == 7
MaxPassTicks == 3
MaxGazeTicks == 72
MaxLoopTicks == 6
MaxBasicTicks == 3
MaxRuns == 2
MaxTimers == 1
MaxStarts == 2
MaxTimerTicks == 6
StartTime == 100000

(* Program constants *)

Null == 0

TrackerHigh == 80
TrackerMedium == 50
TrackerLow == 20

MobileHigh == 60
MobileMedium == 45
MobileLow == 30

SuspiciousnessThreshold == 120
MisclassifiedObjectThreshold == 100
PersonWithObjectThreshold == 75
VeryHighSuspiciousness == 150
ModerateSuspiciousness == 50
RequiredSuspiciousFrames == 5
SuspiciousObjectTimeLimit == 3000

DirectMobileThreshold == 3
MisclassifiedPathwayThreshold == 2
PersonWithObjectPathwayThreshold == 4
HighSuspiciousnessThreshold == 1

RequiredConsecutiveDetections == 3
maxFrameSkip == 3
textDetectionRequiredFrames == 2
AllowedMissedFrames == 2

PersonOnlyThreshold == 8
PersonOnlyConfidence == 70
UnknownObjectThreshold == 5
UnknownObjectConfidence == 60
ViolationCooldown == 10000
SuspiciousObjectScore == 70

LookingAwayThreshold == 5000
NoFaceThreshold == 10000
HeadAngleThreshold == 25

GazeFramesThreshold == 35
GazeCooldown == 15000
GazeResetFrames == 25

\* this.consecutiveLookingAwayFrames before its first assignment (undefined)
\* and after ++ on it (NaN): every comparison with it is false and ++ keeps it
NaN == -1

---------------------------------------------------------------------------
(* Strings *)

\* a.includes(b)
Includes(a, b) ==
    \E i \in 1..(Len(a) - Len(b) + 1) : SubSeq(a, i, i + Len(b) - 1) = b

\* terms.some(t => className.includes(t) || t.includes(className))
MatchesAny(className, terms) ==
    \E i \in 1..Len(terms) :
        Includes(className, terms[i]) \/ Includes(terms[i], className)

Max(a, b) == IF a >= b THEN a ELSE b

Abs(a) == IF a >= 0 THEN a ELSE -a

\* The class labels the exploration feeds in. The string tests of the code
\* are evaluated once per label and looked up afterwards.
ClassNames == {"cell phone", "book", "person", "remote", "banana"}

\* The class of a record that has no class property
Undefined == "undefined"

\* className.includes('phone') || className.includes('cell')
IsPhoneClass(className) ==
    Includes(className, "phone") \/ Includes(className, "cell")

PhoneClass == [cl \in ClassNames |-> IsPhoneClass(cl)]

\* ['remote', 'book', 'bottle', 'cup'].some(item => className.includes(item))
IsLookalikeClass(className) ==
    \E item \in {"remote", "book", "bottle", "cup"} : Includes(className, item)

LookalikeClass == [cl \in ClassNames |-> IsLookalikeClass(cl)]

---------------------------------------------------------------------------
(* The violation emitter *)

\* triggerViolation(type, message, severity): the record goes to the
\* registered sink; a sink that throws aborts the caller. The message is
\* kept as the name of its template.
triggerViolation(c, type, message, severity) ==
    IF c.thrown THEN c
    ELSE [c EXCEPT
            !.out = Append(@, [type |-> type, message |-> message,
                               severity |-> severity]),
            !.thrown = (c.e.onViolationDetected = "throws")]

---------------------------------------------------------------------------
(* 4.1 The suspiciousness scorer *)

\* analyzePhoneShape(aspectRatio, width, height), aspectRatio = w / h
analyzePhoneShape(w, h) ==
    IF 10 * w >= 4 * h /\ 10 * w <= 6 * h THEN 50
    ELSE IF 10 * w >= 16 * h /\ 10 * w <= 25 * h THEN 50
    ELSE IF (10 * w >= 3 * h /\ 10 * w <= 7 * h)
            \/ (10 * w >= 14 * h /\ 10 * w <= 30 * h) THEN 25
    ELSE 0

\* analyzePhoneSize(width, height)
analyzePhoneSize(w, h) ==
    LET objectSize == Max(w, h) IN
    IF objectSize >= 30 /\ objectSize <= 200 THEN 25
    ELSE IF objectSize > 140 /\ objectSize < 300 THEN 10
    ELSE 0

\* The hand at index i is close to the box: distance between the centres
\* below max(hand side)/2 + max(object side)/2 (both sides doubled, squared).
HandNear(hand, x, y, w, h) ==
    LET dx == (2 * x + w) - (2 * hand.x + hand.width)
        dy == (2 * y + h) - (2 * hand.y + hand.height)
        m  == Max(hand.width, hand.height) + Max(w, h)
    IN  dx * dx + dy * dy < m * m

\* analyzeHandContext(x, y, width, height): 50 + round(confidence * 20) for
\* the first stored hand that is near, 0 when there is none.
analyzeHandContext(hands, x, y, w, h) ==
    LET near == {i \in 1..Len(hands) : HandNear(hands[i], x, y, w, h)} IN
    IF near = {} THEN 0
    ELSE LET first == CHOOSE i \in near : \A j \in near : i <= j
         IN  50 + ((hands[first].confidence * 20 + 50) \div 100)

\* calculateSuspiciousnessScore(prediction)
calculateSuspiciousnessScore(hands, p) ==
    IF p.bbox = <<>> THEN 0
    ELSE LET x == p.bbox[1]
             y == p.bbox[2]
             w == p.bbox[3]
             h == p.bbox[4]
             classScore == IF PhoneClass[p.class] THEN 100
                           ELSE IF LookalikeClass[p.class] THEN 25
                           ELSE 0
         IN  classScore + analyzePhoneShape(w, h)
                + analyzeHandContext(hands, x, y, w, h)
                + analyzePhoneSize(w, h)

---------------------------------------------------------------------------
(* 4.3 Mobile detections and the violation pathways *)

mobileKeywords ==
    <<"cell phone", "mobile phone", "phone", "smartphone", "iphone", "android">>

\* mobileKeywords.some(k => className.includes(k) || k.includes(className))
IsMobileClass(className) == MatchesAny(className, mobileKeywords)

MobileClass == [cl \in ClassNames |-> IsMobileClass(cl)]

\* prediction.class.toLowerCase() in the first loop of
\* checkMobilePhoneDetections is a TypeError for a record without a class,
\* before the engine has changed
ClassTypeError(predictions) ==
    \E i \in DOMAIN predictions : predictions[i].class = Undefined

\* Phase 1 of checkMobilePhoneDetections: the direct detections
DirectMobileDetections(predictions) ==
    LET counted(p) == MobileClass[p.class]
                        /\ p.score >= MobileLow
        sel == SelectSeq(predictions, counted)
    IN  [i \in 1..Len(sel) |->
            [class |-> sel[i].class, score |-> sel[i].score,
             bbox |-> sel[i].bbox,
             confidenceLevel |->
                 IF sel[i].score >= MobileHigh THEN "high"
                 ELSE IF sel[i].score >= MobileMedium THEN "medium"
                 ELSE "low",
             suspiciousnessScore |-> 100,
             detectionMethod |-> "coco-ssd"]]

\* performAdvancedMobileAnalysis(predictions) keeping every prediction that
\* scores the moderate level or more
performAdvancedMobileAnalysisFromModerate(hands, predictions) ==
    LET suspicious(p) ==
            calculateSuspiciousnessScore(hands, p) >= ModerateSuspiciousness
        sel == SelectSeq(predictions, suspicious)
    IN  [i \in 1..Len(sel) |->
            [class |-> sel[i].class, score |-> sel[i].score,
             bbox |-> sel[i].bbox,
             confidenceLevel |-> "advanced",
             suspiciousnessScore |-> calculateSuspiciousnessScore(hands, sel[i]),
             detectionMethod |-> "advanced-analysis"]]

\* performAdvancedMobileAnalysis(predictions)
performAdvancedMobileAnalysis(hands, predictions) ==
    LET suspicious(p) ==
            calculateSuspiciousnessScore(hands, p) >= SuspiciousnessThreshold
        sel == SelectSeq(predictions, suspicious)
    IN  [i \in 1..Len(sel) |->
            [class |-> sel[i].class, score |-> sel[i].score,
             bbox |-> sel[i].bbox,
             confidenceLevel |-> "advanced",
             suspiciousnessScore |-> calculateSuspiciousnessScore(hands, sel[i]),
             detectionMethod |-> "advanced-analysis"]]

\* checkMobilePhoneDetections(predictions)
checkMobilePhoneDetections(hands, predictions) ==
    DirectMobileDetections(predictions)
        \o performAdvancedMobileAnalysis(hands, predictions)

NoPathwayCounts ==
    [directMobile |-> 0, misclassifiedObject |-> 0,
     personWithObject |-> 0, highSuspiciousness |-> 0]

\* resetAllPathways() leaving the counter of pathway 1 as it is
resetAllPathwaysButDirect(c) ==
    IF c.thrown THEN c
    ELSE [c EXCEPT !.e.violationPathways =
                       [NoPathwayCounts EXCEPT !.directMobile =
                            c.e.violationPathways.directMobile]]

\* resetAllPathways()
resetAllPathways(c) ==
    IF c.thrown THEN c
    ELSE [c EXCEPT !.e.violationPathways = NoPathwayCounts]

\* triggerEnhancedViolation(violationType, detection, severity)
triggerEnhancedViolation(c, violationType, severity) ==
    triggerViolation(c, "mobile_phone_detected", violationType, severity)

\* One pathway: increment its counter, fire and reset all at the threshold.
Pathway(c, name, threshold, violationType, severity) ==
    LET c1 == [c EXCEPT !.e.violationPathways[name] = @ + 1] IN
    IF c1.e.violationPathways[name] >= threshold
        THEN resetAllPathways(
                 triggerEnhancedViolation(c1, violationType, severity))
        ELSE c1

\* The sustained-moderate counter at the end of processViolationPathways
ModerateSuspiciousnessStep(c, score) ==
    IF score >= ModerateSuspiciousness
        THEN LET c1 == [c EXCEPT !.e.consecutiveSuspiciousFrames = @ + 1] IN
             IF c1.e.consecutiveSuspiciousFrames >= RequiredSuspiciousFrames
                 THEN LET c2 == triggerEnhancedViolation(
                                    c1, "consecutive_suspicious_behavior",
                                    "medium")
                      IN  IF c2.thrown THEN c2
                          ELSE [c2 EXCEPT !.e.consecutiveSuspiciousFrames = 0]
                 ELSE c1
        ELSE [c EXCEPT !.e.consecutiveSuspiciousFrames = 0]

\* processViolationPathways(detection)
processViolationPathways(c, d) ==
    IF c.thrown THEN c
    ELSE IF PhoneClass[d.class]
        THEN Pathway(c, "directMobile", DirectMobileThreshold,
                     "direct_mobile_detection", "high")
    ELSE IF d.suspiciousnessScore >= MisclassifiedObjectThreshold
        THEN Pathway(c, "misclassifiedObject", MisclassifiedPathwayThreshold,
                     "misclassified_mobile_object", "high")
    ELSE IF d.class = "person"
            /\ d.suspiciousnessScore >= PersonWithObjectThreshold
        THEN Pathway(c, "personWithObject", PersonWithObjectPathwayThreshold,
                     "person_with_suspicious_object", "medium")
    ELSE IF d.suspiciousnessScore >= VeryHighSuspiciousness
        THEN Pathway(c, "highSuspiciousness", HighSuspiciousnessThreshold,
                     "highly_suspicious_object", "high")
    ELSE ModerateSuspiciousnessStep(c, d.suspiciousnessScore)

\* mobileDetections.forEach(detection => processViolationPathways(detection))
RECURSIVE ForEachPathways(_, _)
ForEachPathways(c, ds) ==
    IF ds = <<>> THEN c
    ELSE ForEachPathways(processViolationPathways(c, Head(ds)), Tail(ds))

\* resetSuspiciousObjectTimer()
resetSuspiciousObjectTimer(c) ==
    IF c.thrown THEN c
    ELSE [c EXCEPT !.e.lastSuspiciousObjectTime = Null]

\* updateSuspiciousObjectTimer()
updateSuspiciousObjectTimer(c, currentTime) ==
    IF c.thrown THEN c
    ELSE IF c.e.lastSuspiciousObjectTime = Null
        THEN [c EXCEPT !.e.lastSuspiciousObjectTime = currentTime]
    ELSE IF currentTime - c.e.lastSuspiciousObjectTime
                >= SuspiciousObjectTimeLimit
        THEN resetSuspiciousObjectTimer(
                 triggerViolation(c, "mobile_phone_detected",
                                  "suspicious_object_held", "medium"))
    ELSE c

\* directMobileDetections.reduce((best, cur) => cur.score > best.score ? cur : best)
RECURSIVE BestByScore(_, _)
BestByScore(best, ds) ==
    IF ds = <<>> THEN best
    ELSE BestByScore(IF Head(ds).score > best.score THEN Head(ds) ELSE best,
                     Tail(ds))

\* The "traditional" consecutive-frame counter of
\* processConsecutiveMobileDetections
ConsecutiveFrameStep(c, directMobileDetections) ==
    IF c.thrown \/ directMobileDetections = <<>> THEN c
    ELSE LET c1 == [c EXCEPT !.e.phoneDetectedCount = @ + 1,
                             !.e.phoneMissedCount = 0]
         IN  IF c1.e.phoneDetectedCount >= RequiredConsecutiveDetections
                 THEN LET best == BestByScore(Head(directMobileDetections),
                                              Tail(directMobileDetections))
                          c2 == triggerViolation(
                                    c1, "mobile_phone_detected",
                                    "reliably_detected",
                                    IF best.confidenceLevel = "high"
                                        THEN "high" ELSE "medium")
                      IN  IF c2.thrown THEN c2
                          ELSE [c2 EXCEPT !.e.phoneDetectedCount = 0,
                                          !.e.phoneMissedCount = 0]
                 ELSE c1

\* processConsecutiveMobileDetections(mobileDetections) that also clears the
\* pathway counters on a tick without a mobile detection
processConsecutiveMobileDetectionsDecaying(c, mobileDetections, currentTime) ==
    IF c.thrown THEN c
    ELSE IF mobileDetections # <<>>
        THEN LET notAdvanced(d) == d.detectionMethod # "advanced-analysis"
                 c1 == ForEachPathways(c, mobileDetections)
                 c2 == ConsecutiveFrameStep(
                           c1, SelectSeq(mobileDetections, notAdvanced))
             IN  updateSuspiciousObjectTimer(c2, currentTime)
        ELSE resetSuspiciousObjectTimer(resetAllPathways(
                 [c EXCEPT !.e.phoneMissedCount = @ + 1]))

\* processConsecutiveMobileDetections(mobileDetections)
processConsecutiveMobileDetections(c, mobileDetections, currentTime) ==
    IF c.thrown THEN c
    ELSE IF mobileDetections # <<>>
        THEN LET notAdvanced(d) == d.detectionMethod # "advanced-analysis"
                 c1 == ForEachPathways(c, mobileDetections)
                 c2 == ConsecutiveFrameStep(
                           c1, SelectSeq(mobileDetections, notAdvanced))
             IN  updateSuspiciousObjectTimer(c2, currentTime)
        ELSE LET c1 == [c EXCEPT !.e.phoneMissedCount = @ + 1]
                 c2 == IF c1.e.phoneMissedCount > AllowedMissedFrames
                           THEN [c1 EXCEPT !.e.phoneDetectedCount = 0,
                                           !.e.phoneMissedCount = 0]
                           ELSE c1
             IN  resetSuspiciousObjectTimer(c2)

---------------------------------------------------------------------------
(* 4.4 The suspicious-category scorer and the misclassified-object heuristic *)

\* suspiciousItemsCategories, in the order Object.entries yields them
suspiciousItemsCategories ==
    << [name |-> "booksAndPapers",
        items |-> <<"book", "notebook", "paper", "magazine", "journal",
                    "textbook">>,
        baseScore |-> 80, violationType |-> "books_notes_detected",
        severity |-> "high"],
       [name |-> "electronicDevices",
        items |-> <<"cell phone", "mobile phone", "phone", "smartphone", "tv",
                    "remote", "laptop", "mouse", "keyboard", "tablet", "ipad">>,
        baseScore |-> 100, violationType |-> "electronic_device_detected",
        severity |-> "high"],
       [name |-> "writingMaterials",
        items |-> <<"pencil", "pen", "marker", "highlighter", "eraser">>,
        baseScore |-> 60, violationType |-> "writing_materials_detected",
        severity |-> "medium"],
       [name |-> "otherSuspicious",
        items |-> <<"cup", "bottle", "bag", "backpack", "wallet", "purse",
                    "calculator">>,
        baseScore |-> 50, violationType |-> "suspicious_item_detected",
        severity |-> "medium"] >>

commonSafeObjects == {"person", "chair", "desk", "wall", "window", "door"}

\* isKnownObject(className), once the categories exist
isKnownObject(className) ==
    \/ \E k \in 1..Len(suspiciousItemsCategories) :
            MatchesAny(className, suspiciousItemsCategories[k].items)
    \/ className \in commonSafeObjects

KnownObject == [cl \in ClassNames |-> isKnownObject(cl)]

\* Index of the first category the class matches, 0 when there is none
CategoryOf(className) ==
    LET hit == {k \in 1..Len(suspiciousItemsCategories) :
                    MatchesAny(className, suspiciousItemsCategories[k].items)}
    IN  IF hit = {} THEN 0 ELSE CHOOSE k \in hit : \A j \in hit : k <= j

CategoryIndex == [cl \in ClassNames |-> CategoryOf(cl)]

\* analyzeObjectShape(aspectRatio, width, height, category)
analyzeObjectShape(w, h, category) ==
    IF category = "booksAndPapers"
        THEN IF (10 * w >= 6 * h /\ 10 * w <= 8 * h)
                \/ (10 * w >= 12 * h /\ 10 * w <= 17 * h) THEN 30 ELSE 0
    ELSE IF category = "electronicDevices" THEN analyzePhoneShape(w, h)
    ELSE IF 10 * w >= 3 * h /\ 10 * w <= 30 * h THEN 15 ELSE 0

\* analyzeObjectSize(width, height, category)
analyzeObjectSize(w, h, category) ==
    LET objectSize == Max(w, h) IN
    IF category = "booksAndPapers"
        THEN IF objectSize >= 50 /\ objectSize <= 300 THEN 25 ELSE 0
    ELSE IF category = "electronicDevices" THEN analyzePhoneSize(w, h)
    ELSE IF objectSize >= 20 /\ objectSize <= 200 THEN 15 ELSE 0

\* analyzeSuspiciousObject(prediction): totalScore, violationType, severity
analyzeSuspiciousObject(hands, p) ==
    LET k == CategoryIndex[p.class]
        category == IF k = 0 THEN "none" ELSE suspiciousItemsCategories[k].name
        base == IF k = 0 THEN 0 ELSE suspiciousItemsCategories[k].baseScore
        geometry ==
            IF p.bbox # <<>> /\ p.bbox[3] > 0 /\ p.bbox[4] > 0
                THEN analyzeObjectShape(p.bbox[3], p.bbox[4], category)
                     + analyzeHandContext(hands, p.bbox[1], p.bbox[2],
                                          p.bbox[3], p.bbox[4])
                     + analyzeObjectSize(p.bbox[3], p.bbox[4], category)
                ELSE 0
        \* Math.round((0.6 - score) * 50)
        boost ==
            IF p.score # 0 /\ p.score < 60 /\ base + geometry > 0
                THEN (60 - p.score + 1) \div 2 ELSE 0
    IN  [totalScore |-> base + geometry + boost,
         violationType |-> IF k = 0 THEN "suspicious_item_detected"
                           ELSE suspiciousItemsCategories[k].violationType,
         severity |-> IF k = 0 THEN "medium"
                      ELSE suspiciousItemsCategories[k].severity]

\* Scenario 1 of checkMisclassifiedObjects: person-only frames
PersonOnlyStep(c, predictions, currentTime) ==
    LET isPerson(p) == p.class = "person"
        notPerson(p) == p.class # "person"
        confident(p) == p.class = "person" /\ p.score >= PersonOnlyConfidence
    IN
    IF SelectSeq(predictions, isPerson) # <<>>
            /\ SelectSeq(predictions, notPerson) = <<>>
        THEN IF SelectSeq(predictions, confident) # <<>>
                 THEN LET c1 == [c EXCEPT !.e.personOnlyFrames = @ + 1] IN
                      IF c1.e.personOnlyFrames >= PersonOnlyThreshold
                            /\ currentTime - c1.e.lastViolationTime
                                    >= ViolationCooldown
                          THEN LET c2 == triggerViolation(
                                             c1, "misclassified_object_detected",
                                             "person_only", "medium")
                               IN  IF c2.thrown THEN c2
                                   ELSE [c2 EXCEPT
                                           !.e.lastViolationTime = currentTime,
                                           !.e.personOnlyFrames = 0]
                          ELSE c1
                 ELSE [c EXCEPT !.e.personOnlyFrames = Max(0, @ - 1)]
        ELSE [c EXCEPT !.e.personOnlyFrames = 0]

\* Scenario 2 of checkMisclassifiedObjects: unknown objects. isKnownObject
\* reads this.suspiciousItemsCategories, which only analyzeSuspiciousObject
\* creates: Object.values(undefined) throws a TypeError.
UnknownObjectStep(c, predictions) ==
    LET notPerson(p) == p.class # "person"
        unknown(p) == p.class # "person" /\ ~KnownObject[p.class]
                        /\ p.score < UnknownObjectConfidence
    IN
    IF c.thrown THEN c
    ELSE IF SelectSeq(predictions, notPerson) # <<>> /\ ~c.e.categoriesInitialized
        THEN [c EXCEPT !.thrown = TRUE]
    ELSE IF SelectSeq(predictions, unknown) # <<>>
        THEN LET c1 == [c EXCEPT !.e.unknownObjectFrames = @ + 1] IN
             IF c1.e.unknownObjectFrames >= UnknownObjectThreshold
                 THEN LET c2 == triggerViolation(
                                    c1, "unknown_object_detected",
                                    "unknown_object", "medium")
                      IN  IF c2.thrown THEN c2
                          ELSE [c2 EXCEPT !.e.unknownObjectFrames = 0]
                 ELSE c1
    ELSE [c EXCEPT !.e.unknownObjectFrames = 0]

\* checkMisclassifiedObjects(predictions)
checkMisclassifiedObjects(c, predictions, currentTime) ==
    UnknownObjectStep(PersonOnlyStep(c, predictions, currentTime), predictions)

\* processOtherObjects(suspiciousObjects)
RECURSIVE processOtherObjects(_, _)
processOtherObjects(c, objs) ==
    IF c.thrown \/ objs = <<>> THEN c
    ELSE processOtherObjects(
             triggerViolation(c, Head(objs).violationType, "other_object",
                              Head(objs).severity),
             Tail(objs))

\* checkOtherSuspiciousObjects(predictions) followed by
\* processOtherObjects(categorizedObjects)
checkOtherSuspiciousObjects(c, predictions, currentTime) ==
    IF c.thrown \/ predictions = <<>> THEN c
    ELSE LET c1 == checkMisclassifiedObjects(c, predictions, currentTime)
             suspicious(p) ==
                 analyzeSuspiciousObject(c.e.detectedHands, p).totalScore
                     >= SuspiciousObjectScore
             sel == SelectSeq(predictions, suspicious)
             objs == [i \in 1..Len(sel) |->
                         analyzeSuspiciousObject(c.e.detectedHands, sel[i])]
         IN  IF c1.thrown THEN c1
             ELSE processOtherObjects(
                      [c1 EXCEPT !.e.categoriesInitialized = TRUE], objs)

---------------------------------------------------------------------------
(* 4.2 The per-type hysteresis tracker *)

\* getSearchTermsForObjectType(objectType)
getSearchTermsForObjectType(objectType) ==
    IF objectType = "mobile"
        THEN <<"cell phone", "mobile phone", "phone", "smartphone">>
    ELSE IF objectType = "book"
        THEN <<"book", "notebook", "paper", "magazine", "journal", "textbook">>
    ELSE IF objectType = "remote" THEN <<"remote", "tv remote">>
    ELSE IF objectType = "cup" THEN <<"cup", "mug", "bottle">>
    ELSE <<objectType>>

\* The names a type can be tracked under: the built-in two and those the
\* exploration registers
TypeNames == {"mobile", "book", "remote", "person"}

\* searchTerms.some(term => className.includes(term) || term.includes(className))
ClassMatchesType(className, objectType) ==
    MatchesAny(className, getSearchTermsForObjectType(objectType))

TypeMatch ==
    [t \in TypeNames |-> [cl \in ClassNames |-> ClassMatchesType(cl, t)]]

\* findObjectInPredictions(predictions, objectType): the index of the first
\* prediction whose class matches a search term, 0 for undefined
findObjectInPredictions(predictions, objectType) ==
    LET hit == {i \in 1..Len(predictions) :
                    TypeMatch[objectType][predictions[i].class]}
    IN  IF hit = {} THEN 0 ELSE CHOOSE i \in hit : \A j \in hit : i <= j

\* this.objectTracker.gracePeriod[objectType] || this.objectTracker.gracePeriod.default
GracePeriodOf(e, objectType) ==
    IF e.gracePeriod[objectType] # Null THEN e.gracePeriod[objectType]
    ELSE e.gracePeriod["default"]

\* this.objectTracker.violationThresholds[objectType] || ...default
ViolationThresholdOf(e, objectType) ==
    IF e.violationThresholds[objectType] # Null
        THEN e.violationThresholds[objectType]
    ELSE e.violationThresholds["default"]

\* handleObjectDetected(objectType, detection, currentTime)
handleObjectDetected(c, objectType, detection, currentTime) ==
    LET confidence == detection.score IN
    IF confidence >= TrackerMedium
        \* the high and the medium branch assign the same fields
        THEN [c EXCEPT
                !.e.trackedObjects[objectType].consecutiveDetections = @ + 1,
                !.e.trackedObjects[objectType].missedFrames = 0,
                !.e.trackedObjects[objectType].confidence = confidence,
                !.e.trackedObjects[objectType].lastDetectionTime = currentTime]
    ELSE IF confidence >= TrackerLow
        THEN [c EXCEPT
                !.e.trackedObjects[objectType].missedFrames = 0,
                !.e.trackedObjects[objectType].confidence = confidence,
                !.e.trackedObjects[objectType].lastDetectionTime = currentTime]
    ELSE c

\* handleObjectMissed with the reset one miss late (missedFrames > grace + 1):
\* the grace-period properties of the tracker do not hold for it
handleObjectMissedLate(c, objectType) ==
    LET c1 == [c EXCEPT !.e.trackedObjects[objectType].missedFrames = @ + 1] IN
    IF c1.e.trackedObjects[objectType].missedFrames
            > GracePeriodOf(c.e, objectType) + 1
        THEN [c1 EXCEPT
                !.e.trackedObjects[objectType].consecutiveDetections = 0,
                !.e.trackedObjects[objectType].confidence = 0]
        ELSE c1

\* handleObjectMissed(objectType, currentTime)
handleObjectMissed(c, objectType) ==
    LET c1 == [c EXCEPT !.e.trackedObjects[objectType].missedFrames = @ + 1] IN
    IF c1.e.trackedObjects[objectType].missedFrames
            > GracePeriodOf(c.e, objectType)
        THEN [c1 EXCEPT
                !.e.trackedObjects[objectType].consecutiveDetections = 0,
                !.e.trackedObjects[objectType].confidence = 0]
        ELSE c1

\* checkObjectViolation(objectType, state)
checkObjectViolation(c, objectType) ==
    LET threshold == ViolationThresholdOf(c.e, objectType)
        state == c.e.trackedObjects[objectType]
    IN
    IF state.consecutiveDetections >= threshold
            /\ state.confidence >= TrackerMedium
        THEN LET c1 == triggerViolation(
                           c, objectType \o "_detected_stateful", "stateful",
                           IF state.confidence >= TrackerHigh
                                \/ state.consecutiveDetections >= threshold + 2
                               THEN "high" ELSE "medium")
             IN  IF c1.thrown THEN c1
                 ELSE [c1 EXCEPT
                         !.e.trackedObjects[objectType].consecutiveDetections =
                             threshold \div 2]
        ELSE c

\* One iteration of the loop of updateObjectTracking
TrackOne(c, objectType, predictions, currentTime) ==
    LET i == findObjectInPredictions(predictions, objectType)
        c1 == IF i # 0
                  THEN handleObjectDetected(c, objectType, predictions[i],
                                            currentTime)
                  ELSE handleObjectMissed(c, objectType)
    IN  checkObjectViolation(c1, objectType)

\* updateObjectTracking(predictions): the tracked types in insertion order
RECURSIVE TrackAll(_, _, _, _)
TrackAll(c, types, predictions, currentTime) ==
    IF c.thrown \/ types = <<>> THEN c
    ELSE TrackAll(TrackOne(c, Head(types), predictions, currentTime),
                  Tail(types), predictions, currentTime)

updateObjectTracking(c, predictions, currentTime) ==
    TrackAll(c, c.e.trackedOrder, predictions, currentTime)

\* detectObjectsWithAI(), from the moment cocoSsdModel.detect has returned
\* `predictions`: the try block, whose catch swallows any exception
detectObjectsWithAI(e, predictions, currentTime) ==
    LET c0 == [e |-> e, out |-> <<>>, thrown |-> FALSE]
        mobileDetections ==
            checkMobilePhoneDetections(e.detectedHands, predictions)
        c1 == processConsecutiveMobileDetections(c0, mobileDetections,
                                                 currentTime)
        c2 == checkOtherSuspiciousObjects(c1, predictions, currentTime)
    IN  IF ClassTypeError(predictions) THEN [c0 EXCEPT !.thrown = TRUE]
        ELSE updateObjectTracking(c2, predictions, currentTime)

\* registerObjectType(objectType, options): an option that is absent is Null
registerObjectType(e, objectType, gracePeriod, violationThreshold) ==
    IF objectType \in DOMAIN e.trackedObjects THEN e
    ELSE [e EXCEPT
            !.trackedOrder = Append(@, objectType),
            !.trackedObjects =
                [t \in DOMAIN e.trackedObjects \cup {objectType} |->
                    IF t = objectType
                        THEN [consecutiveDetections |-> 0, missedFrames |-> 0,
                              lastDetectionTime |-> Null, confidence |-> 0]
                        ELSE e.trackedObjects[t]],
            !.gracePeriod[objectType] =
                IF gracePeriod # Null THEN gracePeriod ELSE @,
            !.violationThresholds[objectType] =
                IF violationThreshold # Null THEN violationThreshold ELSE @]

\* getObjectStatus(objectType, state): the label and the two numbers of the
\* text it builds
getObjectStatus(e, objectType) ==
    LET state == e.trackedObjects[objectType]
        threshold == ViolationThresholdOf(e, objectType)
        gracePeriod == GracePeriodOf(e, objectType)
    IN  IF state.consecutiveDetections >= threshold
            THEN [label |-> "violation_ready",
                  n |-> state.consecutiveDetections, of |-> threshold]
        ELSE IF state.consecutiveDetections > 0
            THEN [label |-> "tracking",
                  n |-> state.consecutiveDetections, of |-> threshold]
        ELSE IF state.missedFrames > 0 /\ state.missedFrames <= gracePeriod
            THEN [label |-> "grace_period",
                  n |-> state.missedFrames, of |-> gracePeriod]
        ELSE [label |-> "inactive", n |-> 0, of |-> 0]

\* new Date(t).toLocaleTimeString(): the time of day, to the second
toLocaleTimeString(t) == (t \div 1000) % 86400

\* The object getTrackingStatus builds, 'Never' being Null
StatusOf(e) ==
    [t \in DOMAIN e.trackedObjects |->
        LET state == e.trackedObjects[t] IN
        [isActive |-> state.consecutiveDetections > 0,
         consecutiveDetections |-> state.consecutiveDetections,
         missedFrames |-> state.missedFrames,
         lastSeen |-> IF state.lastDetectionTime # Null
                          THEN toLocaleTimeString(state.lastDetectionTime)
                          ELSE Null,
         status |-> getObjectStatus(e, t)]]

\* getTrackingStatus that counts the call as a frame without a detection
getTrackingStatusCounting(e) ==
    [e |-> [e EXCEPT !.trackedObjects =
                [t \in DOMAIN @ |-> [@[t] EXCEPT !.missedFrames = @ + 1]]],
     ret |-> StatusOf(e)]

\* getTrackingStatus(): the engine after the call and the value returned
getTrackingStatus(e) == [e |-> e, ret |-> StatusOf(e)]

---------------------------------------------------------------------------
(* 4.5 The focus state machine *)

\* hideFocusWarning()
hideFocusWarning(c) ==
    IF c.thrown \/ ~c.e.showFocusWarning THEN c
    ELSE [c EXCEPT !.e.showFocusWarning = FALSE, !.e.focusWarningType = "null"]

\* resetNoFaceTimer() without its call of hideFocusWarning
resetNoFaceTimerKeepingWarning(c) ==
    IF c.thrown \/ ~c.e.isCurrentlyNoFace THEN c
    ELSE [c EXCEPT !.e.noFaceStartTime = Null, !.e.isCurrentlyNoFace = FALSE]

\* resetNoFaceTimer()
resetNoFaceTimer(c) ==
    IF c.thrown \/ ~c.e.isCurrentlyNoFace THEN c
    ELSE hideFocusWarning([c EXCEPT !.e.noFaceStartTime = Null,
                                    !.e.isCurrentlyNoFace = FALSE])

\* resetLookingAwayTimer()
resetLookingAwayTimer(c) ==
    IF c.thrown \/ ~c.e.isCurrentlyLookingAway THEN c
    ELSE hideFocusWarning([c EXCEPT !.e.lookingAwayStartTime = Null,
                                    !.e.isCurrentlyLookingAway = FALSE])

\* Math.abs(calculateHeadAngle(face)) > this.headAngleThreshold, where
\* headAngle = (noseTip.x - (leftEye.x + rightEye.x) / 2) / faceWidth * 90 and
\* a face without its 468 landmarks gives 0. A zero faceWidth divides by
\* zero: +-Infinity exceeds the threshold, NaN (0/0) does not.
HeadTurnedAway(face) ==
    LET faceWidth == Abs(face.rightEye - face.leftEye)
        noseOffset2 == 2 * face.noseTip - (face.leftEye + face.rightEye)
    IN  /\ face.landmarks
        /\ IF faceWidth = 0 THEN noseOffset2 # 0
           ELSE Abs(noseOffset2) * 90 > HeadAngleThreshold * 2 * faceWidth

\* handleNoFaceDetection with a strict comparison against noFaceThreshold:
\* a tick exactly 10 s after the timer started would stay silent
handleNoFaceDetectionStrict(c, currentTime) ==
    LET c1 ==
        IF ~c.e.isCurrentlyNoFace
            THEN [c EXCEPT !.e.noFaceStartTime = currentTime,
                           !.e.isCurrentlyNoFace = TRUE]
        ELSE IF currentTime - c.e.noFaceStartTime > NoFaceThreshold
            THEN LET c2 == triggerViolation(
                               [c EXCEPT !.e.showFocusWarning = TRUE,
                                         !.e.focusWarningType = "no_face"],
                               "no_face", "no_face_duration", "high")
                 IN  IF c2.thrown THEN c2
                     ELSE [c2 EXCEPT !.e.noFaceStartTime = currentTime]
        ELSE c
    IN  resetLookingAwayTimer(c1)

\* handleNoFaceDetection(currentTime)
handleNoFaceDetection(c, currentTime) ==
    LET c1 ==
        IF ~c.e.isCurrentlyNoFace
            THEN [c EXCEPT !.e.noFaceStartTime = currentTime,
                           !.e.isCurrentlyNoFace = TRUE]
        ELSE IF currentTime - c.e.noFaceStartTime >= NoFaceThreshold
            THEN LET c2 == triggerViolation(
                               [c EXCEPT !.e.showFocusWarning = TRUE,
                                         !.e.focusWarningType = "no_face"],
                               "no_face", "no_face_duration", "high")
                 IN  IF c2.thrown THEN c2
                     ELSE [c2 EXCEPT !.e.noFaceStartTime = currentTime]
        ELSE c
    IN  resetLookingAwayTimer(c1)

\* handleLookingAwayDetection that leaves the timer where it was when the
\* violation is emitted
handleLookingAwayDetectionKeepingStart(c, currentTime) ==
    IF c.thrown THEN c
    ELSE IF ~c.e.isCurrentlyLookingAway
        THEN [c EXCEPT !.e.lookingAwayStartTime = currentTime,
                       !.e.isCurrentlyLookingAway = TRUE]
    ELSE IF currentTime - c.e.lookingAwayStartTime >= LookingAwayThreshold
        THEN triggerViolation(
                 [c EXCEPT !.e.showFocusWarning = TRUE,
                           !.e.focusWarningType = "looking_away"],
                 "looking_away", "looking_away_duration", "medium")
    ELSE c

\* handleLookingAwayDetection(currentTime, headAngle)
handleLookingAwayDetection(c, currentTime) ==
    IF c.thrown THEN c
    ELSE IF ~c.e.isCurrentlyLookingAway
        THEN [c EXCEPT !.e.lookingAwayStartTime = currentTime,
                       !.e.isCurrentlyLookingAway = TRUE]
    ELSE IF currentTime - c.e.lookingAwayStartTime >= LookingAwayThreshold
        THEN LET c2 == triggerViolation(
                           [c EXCEPT !.e.showFocusWarning = TRUE,
                                     !.e.focusWarningType = "looking_away"],
                           "looking_away", "looking_away_duration", "medium")
             IN  IF c2.thrown THEN c2
                 ELSE [c2 EXCEPT !.e.lookingAwayStartTime = currentTime]
    ELSE c

\* handleSingleFaceDetection without its resetNoFaceTimer(): the no-face
\* state would survive a face that looks away
handleSingleFaceDetectionKeepingNoFace(c, face, currentTime) ==
    LET c2 == IF HeadTurnedAway(face)
                  THEN handleLookingAwayDetection(c, currentTime)
                  ELSE hideFocusWarning(resetLookingAwayTimer(c))
    IN  IF c2.thrown THEN c2
        ELSE [c2 EXCEPT !.e.lastFaceDetection = currentTime]

\* handleSingleFaceDetection(face, currentTime)
handleSingleFaceDetection(c, face, currentTime) ==
    LET c1 == resetNoFaceTimer(c)
        c2 == IF HeadTurnedAway(face)
                  THEN handleLookingAwayDetection(c1, currentTime)
                  ELSE hideFocusWarning(resetLookingAwayTimer(c1))
    IN  IF c2.thrown THEN c2
        ELSE [c2 EXCEPT !.e.lastFaceDetection = currentTime]

\* processFocusDetection whose multi-face branch leaves the no-face timer
\* alone
processFocusDetectionKeepingTimer(c, faces, currentTime) ==
    IF Len(faces) > 1
        THEN hideFocusWarning(resetLookingAwayTimer(
                 triggerViolation(c, "multiple_faces", "multiple_faces",
                                  "high")))
    ELSE IF Len(faces) = 0 THEN handleNoFaceDetection(c, currentTime)
    ELSE handleSingleFaceDetection(c, faces[1], currentTime)

\* processFocusDetection(faces)
processFocusDetection(c, faces, currentTime) ==
    IF Len(faces) > 1
        THEN hideFocusWarning(resetLookingAwayTimer(resetNoFaceTimer(
                 triggerViolation(c, "multiple_faces", "multiple_faces",
                                  "high"))))
    ELSE IF Len(faces) = 0 THEN handleNoFaceDetection(c, currentTime)
    ELSE handleSingleFaceDetection(c, faces[1], currentTime)

\* detectFacesWithAI(), from the moment estimateFaces has returned `faces`
detectFacesWithAI(e, faces, currentTime) ==
    processFocusDetection([e |-> e, out |-> <<>>, thrown |-> FALSE],
                          faces, currentTime)

---------------------------------------------------------------------------
(* The gaze and the hands callbacks *)

\* The faceMesh.onResults callback of detectGazeWithMediaPipe with a strict
\* cooldown replaced by >=
gazeResultsInclusive(c, gaze, currentTime) ==
    IF gaze = "none" THEN c
    ELSE IF gaze = "away"
        THEN LET frames == IF c.e.consecutiveLookingAwayFrames = NaN THEN NaN
                           ELSE c.e.consecutiveLookingAwayFrames + 1
                 c1 == [c EXCEPT !.e.consecutiveLookingAwayFrames = frames]
             IN  IF frames # NaN /\ frames >= GazeFramesThreshold
                     THEN IF c.e.gazeViolationCooldown = Null
                             \/ currentTime - c.e.gazeViolationCooldown
                                    >= GazeCooldown
                             THEN LET c2 == triggerViolation(
                                      c1, "focus_lost", "gaze_away", "medium")
                                  IN  IF c2.thrown THEN c2
                                      ELSE [c2 EXCEPT
                                              !.e.gazeViolationCooldown =
                                                  currentTime,
                                              !.e.consecutiveLookingAwayFrames =
                                                  GazeResetFrames]
                             ELSE c1
                     ELSE c1
    ELSE IF c.e.consecutiveLookingAwayFrames # NaN
              /\ c.e.consecutiveLookingAwayFrames > 0
        THEN [c EXCEPT !.e.consecutiveLookingAwayFrames = 0]
    ELSE c

\* The faceMesh.onResults callback of detectGazeWithMediaPipe: `gaze` is
\* "none" without face landmarks, else what analyzeGazeDirection finds,
\* "away" or "screen"
gazeResults(c, gaze, currentTime) ==
    IF gaze = "none" THEN c
    ELSE IF gaze = "away"
        THEN LET frames == IF c.e.consecutiveLookingAwayFrames = NaN THEN NaN
                           ELSE c.e.consecutiveLookingAwayFrames + 1
                 c1 == [c EXCEPT !.e.consecutiveLookingAwayFrames = frames]
             IN  IF frames # NaN /\ frames >= GazeFramesThreshold
                     THEN IF c.e.gazeViolationCooldown = Null
                             \/ currentTime - c.e.gazeViolationCooldown
                                    > GazeCooldown
                             THEN LET c2 == triggerViolation(
                                      c1, "focus_lost", "gaze_away", "medium")
                                  IN  IF c2.thrown THEN c2
                                      ELSE [c2 EXCEPT
                                              !.e.gazeViolationCooldown =
                                                  currentTime,
                                              !.e.consecutiveLookingAwayFrames =
                                                  GazeResetFrames]
                             ELSE c1
                     ELSE c1
    ELSE IF c.e.consecutiveLookingAwayFrames # NaN
              /\ c.e.consecutiveLookingAwayFrames > 0
        THEN [c EXCEPT !.e.consecutiveLookingAwayFrames = 0]
    ELSE c

\* The handsModel.onResults callback of detectHandsWithMediaPipe
handsResults(c, hands) ==
    [c EXCEPT !.e.detectedHands = hands,
              !.e.consecutiveLookingAwayFrames = 0]

---------------------------------------------------------------------------
(* The engine *)

\* constructor(), initializeMisclassifiedDetection(), initializeObjectTracking()
constructor ==
    [ isInitialized |-> FALSE,
      isDetecting |-> FALSE,
      useBasicDetection |-> FALSE,
      videoElement |-> FALSE,
      cocoSsdModel |-> FALSE,
      faceDetectionModel |-> FALSE,
      faceMesh |-> FALSE,
      handsModel |-> FALSE,
      detectionInterval |-> "null",
      focusCheckInterval |-> "null",
      frameSkipCount |-> 0,
      consecutiveTextDetections |-> 0,
      onViolationDetected |-> "null",
      categoriesInitialized |-> FALSE,
      detectedHands |-> <<>>,
      phoneDetectedCount |-> 0,
      phoneMissedCount |-> 0,
      violationPathways |-> NoPathwayCounts,
      consecutiveSuspiciousFrames |-> 0,
      lastSuspiciousObjectTime |-> Null,
      personOnlyFrames |-> 0,
      unknownObjectFrames |-> 0,
      lastViolationTime |-> 0,
      trackedOrder |-> <<"mobile", "book">>,
      trackedObjects |->
          [t \in {"mobile", "book"} |->
              [consecutiveDetections |-> 0, missedFrames |-> 0,
               lastDetectionTime |-> Null, confidence |-> 0]],
      gracePeriod |->
          [t \in TypeNames \cup {"default"} |->
              IF t = "mobile" THEN 3 ELSE IF t = "book" THEN 4
              ELSE IF t = "default" THEN 2 ELSE Null],
      violationThresholds |->
          [t \in TypeNames \cup {"default"} |->
              IF t = "mobile" THEN 3 ELSE IF t = "book" THEN 4
              ELSE IF t = "default" THEN 3 ELSE Null],
      lookingAwayStartTime |-> Null,
      noFaceStartTime |-> Null,
      isCurrentlyLookingAway |-> FALSE,
      isCurrentlyNoFace |-> FALSE,
      showFocusWarning |-> FALSE,
      focusWarningType |-> "null",
      lastFaceDetection |-> StartTime,
      consecutiveLookingAwayFrames |-> NaN,
      gazeViolationCooldown |-> Null ]

\* The model libraries a page can have loaded before detection.js
AllLibraries == {"cocoSsd", "faceLandmarksDetection", "FaceMesh", "Hands"}

\* initializeBasicFallback()
initializeBasicFallback(e) ==
    [e EXCEPT !.isInitialized = TRUE, !.useBasicDetection = TRUE]

\* initialize(): loadTensorFlowModels() then loadMediaPipeModels(), with the
\* libraries `libs` defined on the page and the load of `failing` throwing.
\* A library that is not defined is skipped without an error.
initialize(e, libs, failing) ==
    LET load(c, lib, field) ==
            IF c.thrown \/ lib \notin libs THEN c
            ELSE IF lib = failing THEN [c EXCEPT !.thrown = TRUE]
            ELSE [c EXCEPT !.e[field] = TRUE]
        c0 == [e |-> e, thrown |-> FALSE]
        c1 == load(c0, "cocoSsd", "cocoSsdModel")
        c2 == load(c1, "faceLandmarksDetection", "faceDetectionModel")
        c3 == load(c2, "FaceMesh", "faceMesh")
        c4 == load(c3, "Hands", "handsModel")
    IN  IF c4.thrown THEN initializeBasicFallback(c4.e)
        ELSE [c4.e EXCEPT !.isInitialized = TRUE]

NoTimers == [fast |-> 0, focus |-> 0, basic |-> 0]

\* startDetection(videoElement) with a video element: the engine and the
\* scheduled intervals after the call. startBasicDetectionLoop() and
\* startAIDetectionLoop() overwrite the handles they find.
startDetection(e, ts) ==
    LET e1 == [e EXCEPT !.videoElement = TRUE, !.isDetecting = TRUE] IN
    IF e1.useBasicDetection
        THEN [e |-> [e1 EXCEPT !.detectionInterval = "basic"],
              timers |-> [ts EXCEPT !.basic = @ + 1]]
        ELSE [e |-> [e1 EXCEPT !.detectionInterval = "fast",
                               !.focusCheckInterval = "focus"],
              timers |-> [ts EXCEPT !.fast = @ + 1, !.focus = @ + 1]]

\* stopDetection(): clearInterval on the two handles the engine holds
stopDetection(e, ts) ==
    LET clear(t, handle) ==
            IF handle = "null" THEN t ELSE [t EXCEPT ![handle] = @ - 1]
    IN  [e |-> [e EXCEPT !.isDetecting = FALSE,
                         !.detectionInterval = "null",
                         !.focusCheckInterval = "null",
                         !.frameSkipCount = 0],
         timers |-> clear(clear(ts, e.detectionInterval),
                          e.focusCheckInterval)]

\* setViolationCallback(callback)
setViolationCallback(e, callback) == [e EXCEPT !.onViolationDetected = callback]

\* detectTextWithAI() on a frame for which analyzeForTextPatterns returns
\* `hasTextPattern`; its catch swallows what the sink throws
detectTextWithAI(c, hasTextPattern) ==
    IF ~hasTextPattern THEN [c EXCEPT !.e.consecutiveTextDetections = 0]
    ELSE LET c1 == [c EXCEPT !.e.consecutiveTextDetections = @ + 1] IN
         IF c1.e.consecutiveTextDetections >= textDetectionRequiredFrames
             THEN LET c2 == triggerViolation(c1, "books_notes_detected",
                                             "text_analysis", "high")
                  IN  IF c2.thrown THEN [c2 EXCEPT !.thrown = FALSE]
                      ELSE [c2 EXCEPT !.e.consecutiveTextDetections = 0]
             ELSE c1

\* The pipelines of runAIDetection in the order it awaits them, and the
\* model each of the four that call a collaborator returns early without
Pipelines == <<"objects", "faces", "gaze", "text", "hands">>
ModelOf ==
    [objects |-> "cocoSsdModel", faces |-> "faceDetectionModel",
     gaze |-> "faceMesh", hands |-> "handsModel"]

\* runAIDetection() from its k-th pipeline on: it runs up to the first
\* collaborator call that is awaited, and is done when there is none.
\* `called` are the pipelines this run has entered; `hasTextPattern` is what
\* the frame gives to detectTextWithAI if the run gets there.
RECURSIVE runAIDetection(_, _, _, _)
runAIDetection(c, run, k, hasTextPattern) ==
    IF k > Len(Pipelines) THEN [c |-> c, run |-> [run EXCEPT !.pc = "done"]]
    ELSE IF Pipelines[k] = "text"
        THEN runAIDetection(detectTextWithAI(c, hasTextPattern),
                            [run EXCEPT !.called = @ \cup {"text"}],
                            k + 1, hasTextPattern)
    ELSE IF c.e[ModelOf[Pipelines[k]]] /\ c.e.videoElement
        THEN [c |-> c,
              run |-> [pc |-> Pipelines[k],
                       called |-> run.called \cup {Pipelines[k]}]]
    ELSE runAIDetection(c, run, k + 1, hasTextPattern)

\* The callback of detectionInterval of startAIDetectionLoop, up to its
\* return to the event loop: the context and the runs of runAIDetection
fastTimerCallback(e, rs, hasTextPattern) ==
    LET c0 == [e |-> e, out |-> <<>>, thrown |-> FALSE] IN
    IF ~e.isDetecting \/ ~e.videoElement THEN [c |-> c0, runs |-> rs]
    ELSE IF e.frameSkipCount + 1 < maxFrameSkip
        THEN [c |-> [c0 EXCEPT !.e.frameSkipCount = @ + 1], runs |-> rs]
    ELSE LET r == runAIDetection([c0 EXCEPT !.e.frameSkipCount = 0],
                                 [pc |-> "start", called |-> {}], 1,
                                 hasTextPattern)
         IN  [c |-> r.c, runs |-> Append(rs, r.run)]

\* A detectFocusWithAI() that runs the focus state machine on a frame without
\* a face
detectFocusWithAIChecking(c, currentTime) ==
    processFocusDetection(c, <<>>, currentTime)

\* detectFocusWithAI(): its body is a comment
detectFocusWithAI(c, currentTime) == c

\* The callback of focusCheckInterval of startAIDetectionLoop
focusTimerCallback(e, currentTime) ==
    LET c0 == [e |-> e, out |-> <<>>, thrown |-> FALSE] IN
    IF ~e.isDetecting \/ ~e.videoElement THEN c0
    ELSE detectFocusWithAI(c0, currentTime)

\* The callback of detectionInterval of startBasicDetectionLoop:
\* detectMobilePhoneBasic (brightRatio > 0.15 is `bright`), whose catch
\* swallows what the sink throws, then detectObjectsBasic and
\* detectMultipleFacesBasic with the outcomes of their Math.random() tests
basicTimerCallback(e, bright, objectDraw, facesDraw) ==
    LET c0 == [e |-> e, out |-> <<>>, thrown |-> FALSE]
        c1 == IF bright
                  THEN [triggerViolation(c0, "mobile_phone", "basic_mobile",
                                         "medium") EXCEPT !.thrown = FALSE]
                  ELSE c0
        c2 == IF objectDraw
                  THEN triggerViolation(c1, "unauthorized_object",
                                        "basic_object", "low")
                  ELSE c1
        c3 == IF facesDraw
                  THEN triggerViolation(c2, "multiple_faces", "basic_faces",
                                        "medium")
                  ELSE c2
    IN  IF ~e.isDetecting \/ ~e.videoElement THEN c0 ELSE c3

\* getStatus()
getStatus(e) ==
    [initialized |-> e.isInitialized,
     detecting |-> e.isDetecting,
     models |-> [object |-> e.cocoSsdModel, face |-> e.faceDetectionModel,
                 gaze |-> e.faceMesh, hands |-> e.handsModel],
     mode |-> IF e.useBasicDetection THEN "basic" ELSE "ai"]

\* The engine once initialize() has loaded every model and
\* startDetection(videoElement) has been called
ready ==
    startDetection(initialize(constructor, AllLibraries, "none"), NoTimers)

\* The state after construction
InitFresh ==
    /\ eng = constructor
    /\ now = StartTime
    /\ emitted = <<>>
    /\ delivered = <<>>
    /\ ticks = 0
    /\ runs = <<>>
    /\ returned = <<>>
    /\ escaped = FALSE
    /\ timers = NoTimers

\* A started engine before its first handler run
Init ==
    /\ eng = ready.e
    /\ now = StartTime
    /\ emitted = <<>>
    /\ delivered = <<>>
    /\ ticks = 0
    /\ runs = <<>>
    /\ returned = <<>>
    /\ escaped = FALSE
    /\ timers = ready.timers

\* The same engine after setViolationCallback(cb) with a sink that keeps
\* what it receives
InitRecording ==
    /\ eng = setViolationCallback(ready.e, "record")
    /\ now = StartTime
    /\ emitted = <<>>
    /\ delivered = <<>>
    /\ ticks = 0
    /\ runs = <<>>
    /\ returned = <<>>
    /\ escaped = FALSE
    /\ timers = ready.timers

---------------------------------------------------------------------------
(* The detector's outputs the exploration draws from *)

PhoneBox == <<100, 100, 50, 100>>
WideBox == <<0, 0, 400, 400>>
BookBox == <<200, 200, 140, 100>>
PersonBox == <<0, 0, 300, 400>>

Phone(score) == [class |-> "cell phone", score |-> score, bbox |-> PhoneBox]
FarPhone(score) == [class |-> "cell phone", score |-> score, bbox |-> WideBox]
BarePhone(score) == [class |-> "cell phone", score |-> score, bbox |-> <<>>]
Book(score) == [class |-> "book", score |-> score, bbox |-> BookBox]
Person(score) == [class |-> "person", score |-> score, bbox |-> PersonBox]
Remote(score) == [class |-> "remote", score |-> score, bbox |-> PhoneBox]
Banana(score) == [class |-> "banana", score |-> score, bbox |-> BookBox]
Nameless(score) == [class |-> Undefined, score |-> score, bbox |-> PhoneBox]

\* A hand as the hands callback stores it, around PhoneBox
HandAtPhone == [x |-> 90, y |-> 90, width |-> 80, height |-> 120,
                confidence |-> 90]

---------------------------------------------------------------------------
(* Actions *)

\* this.onViolationDetected(violation) for every violation of a handler run:
\* a recording sink appends it with its timestamp
Deliver(e, out, time) ==
    IF e.onViolationDetected = "record"
        THEN delivered \o [i \in 1..Len(out) |->
                              [type |-> out[i].type,
                               message |-> out[i].message,
                               severity |-> out[i].severity,
                               timestamp |-> time]]
        ELSE delivered

\* One run of detectObjectsWithAI with the detector returning `predictions`
ObjectTick(predictions, gap) ==
    /\ now' = now + gap
    /\ LET c == detectObjectsWithAI(eng, predictions, now + gap) IN
        /\ eng' = c.e
        /\ emitted' = c.out
        /\ delivered' = Deliver(eng, c.out, now + gap)
    /\ ticks' = ticks + 1
    /\ UNCHANGED host

\* One run of detectFacesWithAI with the face model returning `faces`
FaceTick(faces, gap) ==
    /\ now' = now + gap
    /\ LET c == detectFacesWithAI(eng, faces, now + gap) IN
        /\ eng' = c.e
        /\ emitted' = c.out
        /\ delivered' = Deliver(eng, c.out, now + gap)
    /\ ticks' = ticks + 1
    /\ UNCHANGED host

\* One call of the faceMesh.onResults callback of detectGazeWithMediaPipe
GazeTick(gaze, gap) ==
    /\ now' = now + gap
    /\ LET c == gazeResults([e |-> eng, out |-> <<>>, thrown |-> FALSE],
                            gaze, now + gap) IN
        /\ eng' = c.e
        /\ emitted' = c.out
        /\ delivered' = Deliver(eng, c.out, now + gap)
    /\ ticks' = ticks + 1
    /\ UNCHANGED host

\* One call of the handsModel.onResults callback of detectHandsWithMediaPipe
HandsTick(hands, gap) ==
    /\ now' = now + gap
    /\ eng' = handsResults([e |-> eng, out |-> <<>>, thrown |-> FALSE],
                           hands).e
    /\ emitted' = <<>>
    /\ UNCHANGED delivered
    /\ ticks' = ticks + 1
    /\ UNCHANGED host

\* One run of detectObjectsWithAI in which cocoSsdModel.detect rejects: the
\* catch of the handler logs the error
ObjectTickFailing(gap) ==
    /\ now' = now + gap
    /\ emitted' = <<>>
    /\ ticks' = ticks + 1
    /\ UNCHANGED <<eng, delivered>>
    /\ UNCHANGED host

\* One run of detectFacesWithAI in which estimateFaces rejects
FaceTickFailing(gap) ==
    /\ now' = now + gap
    /\ emitted' = <<>>
    /\ ticks' = ticks + 1
    /\ UNCHANGED <<eng, delivered>>
    /\ UNCHANGED host

\* A call of initialize() on a page with the libraries `libs`, the load of
\* `failing` throwing
Initialize(libs, failing) ==
    /\ eng' = initialize(eng, libs, failing)
    /\ UNCHANGED <<now, emitted, delivered, ticks>>
    /\ UNCHANGED host

\* A call of setViolationCallback(callback)
SetViolationCallback(callback) ==
    /\ eng' = setViolationCallback(eng, callback)
    /\ UNCHANGED <<now, emitted, delivered, ticks>>
    /\ UNCHANGED host

\* A call of startDetection(videoElement)
StartDetection ==
    /\ eng' = startDetection(eng, timers).e
    /\ timers' = startDetection(eng, timers).timers
    /\ UNCHANGED <<now, emitted, delivered, ticks, runs, returned, escaped>>

\* A call of stopDetection()
StopDetection ==
    /\ eng' = stopDetection(eng, timers).e
    /\ timers' = stopDetection(eng, timers).timers
    /\ UNCHANGED <<now, emitted, delivered, ticks, runs, returned, escaped>>

\* The event loop runs the callback of a scheduled detectionInterval of
\* startAIDetectionLoop, `gap` ms after the last timer callback
FastTimer(gap, hasTextPattern) ==
    /\ timers.fast > 0
    /\ now' = now + gap
    /\ LET r == fastTimerCallback(eng, runs, hasTextPattern) IN
        /\ eng' = r.c.e
        /\ emitted' = r.c.out
        /\ delivered' = Deliver(eng, r.c.out, now + gap)
        /\ runs' = r.runs
    /\ ticks' = ticks + 1
    /\ UNCHANGED <<returned, escaped, timers>>

\* The event loop runs the callback of a scheduled detectionInterval of
\* startBasicDetectionLoop; what the callback throws leaves it
BasicTimer(gap, bright, objectDraw, facesDraw) ==
    /\ timers.basic > 0
    /\ now' = now + gap
    /\ LET c == basicTimerCallback(eng, bright, objectDraw, facesDraw) IN
        /\ eng' = c.e
        /\ emitted' = c.out
        /\ delivered' = Deliver(eng, c.out, now + gap)
        /\ escaped' = (escaped \/ c.thrown)
    /\ ticks' = ticks + 1
    /\ UNCHANGED <<runs, returned, timers>>

\* The event loop runs the callback of a scheduled focusCheckInterval
FocusTimer(gap) ==
    /\ timers.focus > 0
    /\ now' = now + gap
    /\ LET c == focusTimerCallback(eng, now + gap) IN
        /\ eng' = c.e
        /\ emitted' = c.out
        /\ delivered' = Deliver(eng, c.out, now + gap)
    /\ ticks' = ticks + 1
    /\ UNCHANGED host

\* Run i of runAIDetection goes on after pipeline k with the context c that
\* the awaited handler has left; a catch has swallowed what it threw
Resume(i, c, k, hasTextPattern) ==
    LET r == runAIDetection([c EXCEPT !.thrown = FALSE], runs[i], k,
                            hasTextPattern) IN
    /\ eng' = r.c.e
    /\ emitted' = r.c.out
    /\ delivered' = Deliver(eng, r.c.out, now)
    /\ runs' = [runs EXCEPT ![i] = r.run]
    /\ UNCHANGED <<now, ticks, returned, escaped, timers>>

\* Run i leaves the event loop's sight: runAIDetection has rejected into the
\* catch of the timer callback ("failed") or awaits a promise that nothing
\* will resolve ("hung")
Leave(i, c, pc) ==
    /\ eng' = c.e
    /\ emitted' = c.out
    /\ delivered' = Deliver(eng, c.out, now)
    /\ runs' = [runs EXCEPT ![i].pc = pc]
    /\ UNCHANGED <<now, ticks, returned, escaped, timers>>

Idle == [e |-> eng, out |-> <<>>, thrown |-> FALSE]

\* A call of registerObjectType(objectType, {gracePeriod, violationThreshold})
RegisterObjectType(objectType, gracePeriod, violationThreshold) ==
    /\ eng' = registerObjectType(eng, objectType, gracePeriod,
                                 violationThreshold)
    /\ UNCHANGED <<now, emitted, delivered, ticks>>
    /\ UNCHANGED host

\* A call of getTrackingStatus()
GetTrackingStatus ==
    /\ LET r == getTrackingStatus(eng) IN
        /\ eng' = r.e
        /\ returned' = r.ret
    /\ UNCHANGED <<now, emitted, delivered, ticks, runs, escaped, timers>>

---------------------------------------------------------------------------
(* The tracker under arbitrary object streams and registrations *)

TrackFrames ==
    { <<>>, <<Person(90)>>, <<Phone(66)>>, <<Phone(34)>>, <<Phone(10)>>,
      <<Phone(90)>> }

RegisteredTypes == {"person"}
GraceOptions == {Null, 1}
ThresholdOptions == {Null, -1}

TrackTick ==
    /\ ticks < MaxTicks
    /\ \E f \in TrackFrames : ObjectTick(f, 3000)

TrackRegister ==
    \E t \in RegisteredTypes, g \in GraceOptions, th \in ThresholdOptions :
        RegisterObjectType(t, g, th)

NextTrack == TrackTick \/ TrackRegister

SpecTrack == Init /\ [][NextTrack]_vars

---------------------------------------------------------------------------
(* The tracker read through getTrackingStatus between ticks *)

StatusFrames == { <<>>, <<Person(90)>>, <<Phone(66)>>, <<Phone(34)>> }

StatusTick ==
    /\ ticks < MaxStatusTicks
    /\ \E f \in StatusFrames : ObjectTick(f, 3000)

StatusRegister == RegisterObjectType("person", Null, Null)

NextStatus == StatusTick \/ StatusRegister \/ GetTrackingStatus

SpecStatus == Init /\ [][NextStatus]_vars

---------------------------------------------------------------------------
(* A fresh engine fed the same phone detection on every object tick *)

StreamGaps == {2000, 3000, 4000}

\* {class: 'cell phone', score: 0.65} with the box of a phone held close, of
\* a phone filling the frame, or without a box
PhoneFrames == { <<Phone(65)>>, <<FarPhone(65)>>, <<BarePhone(65)>> }

PhoneStreamTick ==
    /\ ticks < MaxStreamTicks
    /\ \E f \in PhoneFrames, gap \in StreamGaps : ObjectTick(f, gap)

SpecPhoneStream == InitRecording /\ [][PhoneStreamTick]_vars

---------------------------------------------------------------------------
(* A fresh engine fed a book on every other object tick *)

BookFrames == { <<Book(55)>>, <<Book(60)>>, <<Book(58)>> }
NoBookFrames == { <<>>, <<Person(90)>> }

BookStreamTick ==
    /\ ticks < MaxStreamTicks
    /\ \E f \in (IF ticks % 2 = 0 THEN BookFrames ELSE NoBookFrames),
          gap \in StreamGaps : ObjectTick(f, gap)

SpecBookStream == InitRecording /\ [][BookStreamTick]_vars

---------------------------------------------------------------------------
(* The candidate alone in the frame and looking away, pass after pass: the
   object handler and the gaze callback of a pass run in the same
   millisecond, the hands model has answered once and fails from then on.
   The passes are 1 s apart up to the first gaze violation and 1 s or 2 s
   apart after it. *)

PassGaps ==
    IF eng.gazeViolationCooldown = Null THEN {1000} ELSE {1000, 2000}

InitCooldown ==
    /\ eng = handsResults([e |-> setViolationCallback(ready.e, "record"),
                           out |-> <<>>, thrown |-> FALSE], <<>>).e
    /\ now = StartTime
    /\ emitted = <<>>
    /\ delivered = <<>>
    /\ ticks = 0
    /\ runs = <<>>
    /\ returned = <<>>
    /\ escaped = FALSE
    /\ timers = ready.timers

CooldownTick ==
    /\ ticks < MaxCooldownTicks
    /\ IF ticks % 2 = 0
           THEN \E gap \in PassGaps : ObjectTick(<<Person(90)>>, gap)
           ELSE GazeTick("away", 0)

SpecCooldown == InitCooldown /\ [][CooldownTick]_vars

---------------------------------------------------------------------------
(* The focus state machine under arbitrary face streams *)

FaceOn == [landmarks |-> TRUE, noseTip |-> 50, leftEye |-> 40, rightEye |-> 60]
FaceAway == [landmarks |-> TRUE, noseTip |-> 58, leftEye |-> 40, rightEye |-> 60]
FaceBare == [landmarks |-> FALSE, noseTip |-> 58, leftEye |-> 40, rightEye |-> 60]

FaceFrames ==
    { <<>>, <<FaceOn>>, <<FaceAway>>, <<FaceBare>>, <<FaceOn, FaceAway>> }

FaceGaps == {2000, 5000}

FaceStreamTick ==
    /\ ticks < MaxTicks
    /\ \E f \in FaceFrames, gap \in FaceGaps : FaceTick(f, gap)

SpecFace == InitRecording /\ [][FaceStreamTick]_vars

---------------------------------------------------------------------------
(* No face in front of the camera, tick after tick *)

NoFaceStreamTick ==
    /\ ticks < MaxStreamTicks
    /\ \E gap \in FaceGaps : FaceTick(<<>>, gap)

SpecNoFace == InitRecording /\ [][NoFaceStreamTick]_vars

\* Handler runs in which a collaborator fails or returns a record without
\* a class, next to runs that succeed
FaultFrames ==
    { <<>>, <<Person(90)>>, <<Phone(66)>>, <<Book(58)>>,
      <<Nameless(66), Phone(66)>>, <<Book(58), Nameless(66)>> }
FaultFaces == { <<>>, <<FaceOn>>, <<FaceAway>> }
FaultGap == 3000

FaultObjectTick ==
    ticks < MaxFaultTicks /\ \E f \in FaultFrames : ObjectTick(f, FaultGap)
FaultObjectFailure == ticks < MaxFaultTicks /\ ObjectTickFailing(FaultGap)
FaultFaceTick ==
    ticks < MaxFaultTicks /\ \E f \in FaultFaces : FaceTick(f, 0)
FaultFaceFailure == ticks < MaxFaultTicks /\ FaceTickFailing(0)

NextFault ==
    \/ FaultObjectTick
    \/ FaultObjectFailure
    \/ FaultFaceTick
    \/ FaultFaceFailure

SpecFault == InitRecording /\ [][NextFault]_vars

---------------------------------------------------------------------------
(* The engine from construction on: initialisation, the sink, start and stop,
   the timers of either loop and the collaborators answering in their time *)

LibraryOptions == { AllLibraries, {}, {"cocoSsd", "faceLandmarksDetection"} }
FailingOptions == { "none", "cocoSsd", "Hands" }
SinkOptions == { "record", "throws" }
LoopFrames == { <<>>, <<Phone(66)>> }
LoopFaces == { <<>>, <<FaceOn>> }
LoopGaze == { "none", "away" }
FastGaps == IF timers.fast > 1 THEN {0, 1000} ELSE {1000}
BasicGap == 3000

LoopInitialize ==
    /\ ~eng.isInitialized
    /\ \E libs \in LibraryOptions, failing \in FailingOptions :
          Initialize(libs, failing)

LoopSetCallback ==
    /\ eng.onViolationDetected = "null"
    /\ \E callback \in SinkOptions : SetViolationCallback(callback)

\* The page awaits initialize() before it starts detection
LoopStart ==
    /\ eng.isInitialized
    /\ timers.fast + timers.basic < MaxTimers
    /\ StartDetection

LoopStop == eng.isDetecting /\ StopDetection

LoopFastTimer ==
    /\ ticks < MaxLoopTicks
    /\ Len(runs) < MaxRuns
    /\ \E gap \in FastGaps, text \in BOOLEAN : FastTimer(gap, text)

LoopBasicTimer ==
    /\ ticks < MaxBasicTicks
    /\ \E bright, objectDraw, facesDraw \in BOOLEAN :
          BasicTimer(BasicGap, bright, objectDraw, facesDraw)

\* cocoSsdModel.detect of a run resolves
ObjectsReturn ==
    \E i \in DOMAIN runs, predictions \in LoopFrames, text \in BOOLEAN :
        /\ runs[i].pc = "objects"
        /\ Resume(i, detectObjectsWithAI(eng, predictions, now), 2, text)

\* cocoSsdModel.detect of a run rejects
ObjectsReject ==
    \E i \in DOMAIN runs, text \in BOOLEAN :
        /\ runs[i].pc = "objects"
        /\ Resume(i, Idle, 2, text)

\* estimateFaces of a run resolves
FacesReturn ==
    \E i \in DOMAIN runs, faces \in LoopFaces, text \in BOOLEAN :
        /\ runs[i].pc = "faces"
        /\ Resume(i, detectFacesWithAI(eng, faces, now), 3, text)

\* estimateFaces of a run rejects
FacesReject ==
    \E i \in DOMAIN runs, text \in BOOLEAN :
        /\ runs[i].pc = "faces"
        /\ Resume(i, Idle, 3, text)

\* faceMesh calls the onResults callback of a run; resolve(results) is its
\* last statement, which a throwing sink keeps it from
GazeReturn ==
    \E i \in DOMAIN runs, gaze \in LoopGaze, text \in BOOLEAN :
        /\ runs[i].pc = "gaze"
        /\ LET c == gazeResults(Idle, gaze, now) IN
            IF c.thrown THEN Leave(i, c, "hung")
            ELSE Resume(i, c, 4, text)

\* faceMesh.send of a run throws inside the promise executor: the promise
\* that detectGazeWithMediaPipe returns rejects outside its try block
GazeReject ==
    \E i \in DOMAIN runs : runs[i].pc = "gaze" /\ Leave(i, Idle, "failed")

\* faceMesh never calls the onResults callback of a run
GazeSilent ==
    \E i \in DOMAIN runs : runs[i].pc = "gaze" /\ Leave(i, Idle, "hung")

\* handsModel calls the onResults callback of a run
HandsReturn ==
    \E i \in DOMAIN runs :
        /\ runs[i].pc = "hands"
        /\ Resume(i, handsResults(Idle, <<>>), 6, FALSE)

\* handsModel.send of a run throws inside the promise executor
HandsReject ==
    \E i \in DOMAIN runs : runs[i].pc = "hands" /\ Leave(i, Idle, "failed")

NextLoop ==
    \/ LoopInitialize
    \/ LoopSetCallback
    \/ LoopStart
    \/ LoopStop
    \/ LoopFastTimer
    \/ LoopBasicTimer
    \/ ObjectsReturn
    \/ ObjectsReject
    \/ FacesReturn
    \/ FacesReject
    \/ GazeReturn
    \/ GazeReject
    \/ GazeSilent
    \/ HandsReturn
    \/ HandsReject

SpecLoop == InitFresh /\ [][NextLoop]_vars

---------------------------------------------------------------------------
(* The pathway arbiter under object streams, with or without a hand in the
   frame, and with a sink that records or one that throws *)

PathwayFrames ==
    { <<>>, <<Phone(65)>>, <<FarPhone(65)>>, <<Remote(66)>>, <<Person(90)>>,
      <<Remote(66), FarPhone(65)>> }
PathwayHands == { <<>>, <<HandAtPhone>> }
PathwayGaps == {1500, 3000}

InitPathway ==
    /\ eng \in { setViolationCallback(ready.e, callback) :
                    callback \in SinkOptions }
    /\ now = StartTime
    /\ emitted = <<>>
    /\ delivered = <<>>
    /\ ticks = 0
    /\ runs = <<>>
    /\ returned = <<>>
    /\ escaped = FALSE
    /\ timers = ready.timers

PathwayObjectTick ==
    /\ ticks < MaxPathwayTicks
    /\ \E f \in PathwayFrames, gap \in PathwayGaps : ObjectTick(f, gap)

PathwayHandsTick ==
    /\ ticks < MaxPathwayTicks
    /\ \E h \in PathwayHands : HandsTick(h, 0)

NextPathway == PathwayObjectTick \/ PathwayHandsTick

SpecPathway == InitPathway /\ [][NextPathway]_vars

---------------------------------------------------------------------------
(* The candidate looking away in every pass of runAIDetection: the gaze
   callback, then the hands callback of the same pass *)

GazeStreamGaze ==
    /\ ticks < MaxGazeTicks
    /\ ticks % 2 = 0
    /\ GazeTick("away", FaultGap)

GazeStreamHands ==
    /\ ticks < MaxGazeTicks
    /\ ticks % 2 = 1
    /\ \E h \in PathwayHands : HandsTick(h, 0)

NextGazeStream == GazeStreamGaze \/ GazeStreamHands

SpecGazeStream == InitRecording /\ [][NextGazeStream]_vars

---------------------------------------------------------------------------
(* The tracker under frames that hold two detections of one type *)

PairFrames ==
    { <<>>, <<Person(90)>>, <<Phone(34), Phone(66)>>,
      <<Phone(66), Phone(34)>>, <<Phone(66), Book(58)>> }

PairTick ==
    /\ ticks < MaxTicks
    /\ \E f \in PairFrames : ObjectTick(f, FaultGap)

SpecPair == InitRecording /\ [][PairTick]_vars

(* The tracker with a type registered under a violation threshold of its own *)

CustomThresholds == {1, 2, 4}

CustomFrames == { <<>>, <<Person(90)>>, <<Person(50)>> }

CustomRegister ==
    \E th \in CustomThresholds : RegisterObjectType("person", Null, th)

CustomTick ==
    /\ ticks < MaxTicks
    /\ \E f \in CustomFrames : ObjectTick(f, FaultGap)

NextCustom == CustomRegister \/ CustomTick

SpecCustom == InitRecording /\ [][NextCustom]_vars

(* The unknown-object counter under frames with and without an unknown object *)

UnknownFrames == { <<>>, <<Person(90)>>, <<Banana(50)>>, <<Banana(70)>> }

UnknownTick ==
    /\ ticks < MaxUnknownTicks
    /\ \E f \in UnknownFrames : ObjectTick(f, FaultGap)

SpecUnknown == InitRecording /\ [][UnknownTick]_vars

(* Whole passes of runAIDetection: every collaborator answers, and the five
   pipelines run one after the other *)

PassFrames == { <<>>, <<Person(90)>>, <<Phone(65)>> }
PassFaces == { <<FaceOn>>, <<FaceAway>> }
PassGaze == { "none", "away" }

\* A pass whose face pipeline runs before its object pipeline
runAIDetectionFacesFirst(e, predictions, faces, gaze, text, hands, t) ==
    LET c1 == detectFacesWithAI(e, faces, t)
        c2 == detectObjectsWithAI(c1.e, predictions, t)
        c3 == gazeResults([c2 EXCEPT !.out = c1.out \o @,
                                     !.thrown = FALSE], gaze, t)
        c4 == detectTextWithAI([c3 EXCEPT !.thrown = FALSE], text)
    IN  handsResults(c4, hands)

\* runAIDetection() with the collaborators answering `predictions`, `faces`,
\* `gaze` and `hands` and the frame holding a text pattern or not: each
\* handler catches what its body throws
runAIDetectionWith(e, predictions, faces, gaze, text, hands, t) ==
    LET c1 == detectObjectsWithAI(e, predictions, t)
        c2 == processFocusDetection([c1 EXCEPT !.thrown = FALSE], faces, t)
        c3 == gazeResults([c2 EXCEPT !.thrown = FALSE], gaze, t)
        c4 == detectTextWithAI([c3 EXCEPT !.thrown = FALSE], text)
    IN  handsResults(c4, hands)

Pass(predictions, faces, gaze, hasTextPattern, hands) ==
    \E c \in {runAIDetectionWith(eng, predictions, faces, gaze,
                                 hasTextPattern, hands, now + FaultGap)} :
        /\ now' = now + FaultGap
        /\ eng' = c.e
        /\ emitted' = c.out
        /\ delivered' = Deliver(eng, c.out, now + FaultGap)
        /\ ticks' = ticks + 1
        /\ UNCHANGED host

PassTick ==
    /\ ticks < MaxPassTicks
    /\ \E f \in PassFrames, fc \in PassFaces, g \in PassGaze,
          t \in BOOLEAN, h \in PathwayHands : Pass(f, fc, g, t, h)

SpecPass == InitRecording /\ [][PassTick]_vars

(* The two timers of the AI loop under calls of startDetection and
   stopDetection, with the face pipeline running in the fast tick *)

FocusGap == 2000
TimerFaces == { <<>>, <<FaceOn>> }

NextTimers ==
    \/ timers.fast < MaxStarts /\ StartDetection
    \/ StopDetection
    \/ /\ ticks < MaxTimerTicks
       /\ timers.fast > 0 /\ eng.isDetecting
       /\ \E f \in TimerFaces : FaceTick(f, FaultGap)
    \/ ticks < MaxTimerTicks /\ FocusTimer(FocusGap)

SpecTimers == InitRecording /\ [][NextTimers]_vars

---------------------------------------------------------------------------
(* Properties *)

\* What a log of violations holds
TypesOf(log) == { log[i].type : i \in DOMAIN log }
MessagesOf(log) == { log[i].message : i \in DOMAIN log }
CountType(log, type) == Cardinality({ i \in DOMAIN log : log[i].type = type })

TrackedTypes == DOMAIN eng.trackedObjects

\* The violations of the four pathways of processViolationPathways
PathwayMessages ==
    { "direct_mobile_detection", "misclassified_mobile_object",
      "person_with_suspicious_object", "highly_suspicious_object" }

\* C1: on a fresh engine fed a medium-tier mobile detection on every tick,
\* the tracker has triggered exactly one mobile violation once four ticks
\* have run (at the third tick, and none at the fourth).
C1_OneTrackerViolationInFourTicks ==
    /\ ticks = 3 => "mobile_detected_stateful" \in TypesOf(emitted)
    /\ ticks = 4 => CountType(delivered, "mobile_detected_stateful") = 1

\* C2: with {class: 'cell phone', score: 0.65} on every tick and no hands,
\* the direct-mobile pathway is the first to fire, it fires at tick 3 with
\* severity high, and every pathway counter is 0 afterwards.
C2_DirectPathwayFiresAtTickThree ==
    /\ ticks < 3 => MessagesOf(delivered) \cap PathwayMessages = {}
    /\ ticks = 3 =>
        /\ \E i \in DOMAIN emitted :
               emitted[i] = [type |-> "mobile_phone_detected",
                             message |-> "direct_mobile_detection",
                             severity |-> "high"]
        /\ eng.violationPathways = NoPathwayCounts

\* C3: under a stream that alternates a medium-tier book with no book, the
\* book tracker never resets its consecutiveDetections (the count is the
\* number of detections so far) and fires on the tick of the fourth
\* detection, the seventh tick.
C3_BookFiresAtFourthDetection ==
    /\ ticks \in 1..6 =>
           eng.trackedObjects["book"].consecutiveDetections = (ticks + 1) \div 2
    /\ ticks = 7 => "book_detected_stateful" \in TypesOf(emitted)

\* The state of a type before and after the step under consideration
Cd(t) == eng.trackedObjects[t].consecutiveDetections
Mf(t) == eng.trackedObjects[t].missedFrames
CdAfter(t) == eng'.trackedObjects[t].consecutiveDetections
MfAfter(t) == eng'.trackedObjects[t].missedFrames

\* The effect of a miss on type t: within the grace period the count is
\* kept, the miss that exceeds it clears the count and the confidence
MissEffect(t) ==
    IF Mf(t) + 1 <= GracePeriodOf(eng, t)
        THEN CdAfter(t) = Cd(t)
        ELSE /\ CdAfter(t) = 0
             /\ eng'.trackedObjects[t].confidence = 0

C5_LowTierTick ==
    [][\A f \in TrackFrames : \A t \in TrackedTypes :
          LET i == findObjectInPredictions(f, t) IN
          (i # 0 /\ f[i].score >= TrackerLow /\ f[i].score < TrackerMedium)
              => \/ CdAfter(t) = Cd(t) /\ MfAfter(t) = 0
                 \/ ~ObjectTick(f, 3000)]_vars

\* C6: in every reachable state every tracked type, built in or registered
\* with any options, has consecutiveDetections >= 0 and missedFrames >= 0.
C6_CountersNonNegative ==
    \A t \in TrackedTypes : Cd(t) >= 0 /\ Mf(t) >= 0

\* C7 as stated: consecutiveDetections > 0 and missedFrames > 0 never hold
\* together at the end of two consecutive ticks.
C7_NeverBothPositiveTwice ==
    [][\A t \in TrackedTypes :
          (ticks' = ticks + 1 /\ Cd(t) > 0 /\ Mf(t) > 0)
              => ~(CdAfter(t) > 0 /\ MfAfter(t) > 0)]_vars

\* C7: consecutiveDetections > 0 and missedFrames > 0 hold together only
\* while missedFrames is within the type's grace period: the miss that
\* exceeds it sets consecutiveDetections to 0.
C7_BothPositiveWithinGrace ==
    \A t \in TrackedTypes :
        (Cd(t) > 0 /\ Mf(t) > 0) => Mf(t) <= GracePeriodOf(eng, t)

\* A count that has survived as many misses as the grace period allows,
\* over two ticks or more
C7_Witness ==
    \E t \in TrackedTypes :
        Cd(t) > 0 /\ Mf(t) >= 2 /\ Mf(t) = GracePeriodOf(eng, t)

\* C8: after every face tick, whatever face counts and head angles have been
\* processed, isCurrentlyLookingAway and isCurrentlyNoFace are not both true.
C8_FocusFlagsExclusive ==
    ~(eng.isCurrentlyLookingAway /\ eng.isCurrentlyNoFace)

\* The candidate has been seen, looked away for long enough to be reported,
\* and has now left the frame
C8_Witness ==
    /\ eng.isCurrentlyNoFace
    /\ "looking_away" \in TypesOf(delivered)
    /\ delivered[Len(delivered)].timestamp = eng.lastFaceDetection

MultipleFaces ==
    [type |-> "multiple_faces", message |-> "multiple_faces",
     severity |-> "high"]

\* C9: a face tick that observes more than one face emits exactly a
\* high-severity multiple_faces violation and leaves the no-face and the
\* looking-away timers cleared; a zero-face tick that follows it starts the
\* no-face timer at its own time.
C9_MultipleFaces ==
    [][\A f \in FaceFrames, gap \in FaceGaps :
          /\ (Len(f) > 1 /\ FaceTick(f, gap)) =>
                /\ emitted' = <<MultipleFaces>>
                /\ Len(delivered') = Len(delivered) + 1
                /\ delivered'[Len(delivered')].type = "multiple_faces"
                /\ delivered'[Len(delivered')].severity = "high"
                /\ delivered'[Len(delivered')].timestamp = now'
                /\ ~eng'.isCurrentlyNoFace
                /\ eng'.noFaceStartTime = Null
                /\ ~eng'.isCurrentlyLookingAway
                /\ eng'.lookingAwayStartTime = Null
          /\ (emitted = <<MultipleFaces>> /\ Len(f) = 0 /\ FaceTick(f, gap)) =>
                /\ eng'.isCurrentlyNoFace
                /\ eng'.noFaceStartTime = now'
                /\ emitted' = <<>>]_vars

\* Two faces in the frame right after the no-face timer had been running
\* and had fired
C9_Witness ==
    /\ emitted = <<MultipleFaces>>
    /\ Len(delivered) >= 2
    /\ delivered[Len(delivered) - 1].type = "no_face"
    /\ ~eng.isCurrentlyNoFace

NoFaceViolation ==
    [type |-> "no_face", message |-> "no_face_duration", severity |-> "high",
     timestamp |-> now']

\* C10: with zero faces on every tick, the first tick starts the no-face
\* timer and emits nothing; a later tick emits one no_face violation exactly
\* when 10000 ms or more have passed since the timer's start, which is the
\* first zero-face tick until the first emission and the last emission from
\* then on; hence the timer never shows 10000 ms or more after a tick, and
\* two no_face violations are never less than 10000 ms apart.
C10_NoFaceCadence ==
    /\ [][IF ~eng.isCurrentlyNoFace
              THEN /\ eng'.isCurrentlyNoFace
                   /\ eng'.noFaceStartTime = now'
                   /\ delivered' = delivered
          ELSE IF now' - eng.noFaceStartTime >= NoFaceThreshold
              THEN /\ delivered' = Append(delivered, NoFaceViolation)
                   /\ eng'.noFaceStartTime = now'
              ELSE /\ delivered' = delivered
                   /\ eng'.noFaceStartTime = eng.noFaceStartTime]_vars
    /\ [](eng.isCurrentlyNoFace => now - eng.noFaceStartTime < NoFaceThreshold)
    /\ [](\A i, j \in DOMAIN delivered :
            i < j => delivered[j].timestamp - delivered[i].timestamp
                         >= NoFaceThreshold)
    /\ [](delivered # <<>> =>
            eng.noFaceStartTime = delivered[Len(delivered)].timestamp)

\* A second no_face violation, exactly 10000 ms after the first
C10_Witness ==
    /\ Len(delivered) >= 2
    /\ delivered[2].type = "no_face"
    /\ delivered[2].timestamp - delivered[1].timestamp = NoFaceThreshold

\* C11: getTrackingStatus changes no engine state; what it returns is
\* determined by the tracker's state alone (each field is the tracked
\* type's), so a second call with no tick or registration in between
\* returns the same value.
C11_StatusIsPureRead ==
    [][GetTrackingStatus =>
          /\ eng' = eng
          /\ DOMAIN returned' = TrackedTypes
          /\ \A t \in TrackedTypes :
                /\ returned'[t].consecutiveDetections = Cd(t)
                /\ returned'[t].missedFrames = Mf(t)
                /\ returned'[t].isActive = (Cd(t) > 0)
          /\ (returned = StatusOf(eng) => returned' = returned)]_vars

\* A status read while the phone is being tracked and is still current
C11_Witness ==
    /\ returned # <<>>
    /\ returned = StatusOf(eng)
    /\ returned["mobile"].status.label = "tracking"
    /\ returned["book"].status.label = "grace_period"

\* The times at which a sink has received violations of one type
TimesOf(log, type) ==
    { log[i].timestamp : i \in { j \in DOMAIN log : log[j].type = type } }

\* C12: two person-only misclassified_object_detected violations are never
\* less than 10000 ms apart, and two gaze focus_lost violations are never
\* 15000 ms or less apart.
C12_CooldownWindows ==
    /\ \A t1, t2 \in TimesOf(delivered, "misclassified_object_detected") :
          t1 < t2 => t2 - t1 >= ViolationCooldown
    /\ \A t1, t2 \in TimesOf(delivered, "focus_lost") :
          t1 < t2 => t2 - t1 > GazeCooldown
    /\ \A i, j \in DOMAIN delivered :
          (i < j /\ delivered[i].type = delivered[j].type
                 /\ delivered[i].type \in {"misclassified_object_detected",
                                           "focus_lost"})
              => delivered[i].timestamp < delivered[j].timestamp

\* Both categories have fired twice, each the second time as soon as its
\* cooldown allowed: 10000 ms and 16000 ms after the first
C12_Witness ==
    /\ \E t1, t2 \in TimesOf(delivered, "misclassified_object_detected") :
          t2 - t1 = ViolationCooldown
    /\ \E t1, t2 \in TimesOf(delivered, "focus_lost") :
          t2 - t1 = GazeCooldown + 1000

\* C17: a registerObjectType call whose violationThreshold is negative is
\* rejected: the set of tracked types and the stored grace periods and
\* thresholds are what they were before the call.
C17_NonPositiveOptionsRejected ==
    [][\A t \in RegisteredTypes, g \in GraceOptions, th \in ThresholdOptions :
          \/ th >= 0
          \/ /\ TrackedTypes' = TrackedTypes
             /\ eng'.gracePeriod = eng.gracePeriod
             /\ eng'.violationThresholds = eng.violationThresholds
          \/ ~RegisterObjectType(t, g, th)]_vars

\* C15: a handler run whose collaborator call fails leaves the engine as the
\* same run with an empty result would: after a failing detect every tracked
\* type has recorded a miss and the held-object timer is cleared, and a
\* failing estimateFaces is processed as zero faces.
C15_FailureIsEmptyResult ==
    [][/\ FaultObjectFailure =>
             eng' = detectObjectsWithAI(eng, <<>>, now').e
       /\ FaultFaceFailure =>
             eng' = detectFacesWithAI(eng, <<>>, now').e]_vars

\* The records of a frame that have a class
WellFormed(predictions) ==
    LET hasClass(p) == p.class # Undefined IN SelectSeq(predictions, hasClass)

\* C16: a record without a class is skipped alone: the object handler leaves
\* the engine, and delivers, as it does for the frame's other records.
C16_MalformedRecordSkippedAlone ==
    [][\A f \in FaultFrames :
          \/ /\ eng' = detectObjectsWithAI(eng, WellFormed(f), now').e
             /\ emitted' = detectObjectsWithAI(eng, WellFormed(f), now').out
          \/ ~ObjectTick(f, FaultGap)]_vars

\* The runs of runAIDetection that await a collaborator
InProgress ==
    { i \in DOMAIN runs : runs[i].pc \in {"objects", "faces", "gaze", "hands"} }

\* C13: at most one execution of runAIDetection is in progress at any time.
C13_AtMostOneRunInProgress == Cardinality(InProgress) <= 1

\* The tracker, pathway and focus state of an engine
TrackerState(e) == e.trackedObjects
PathwayState(e) ==
    <<e.violationPathways, e.phoneDetectedCount, e.phoneMissedCount,
      e.consecutiveSuspiciousFrames, e.lastSuspiciousObjectTime>>
FocusState(e) ==
    <<e.lookingAwayStartTime, e.noFaceStartTime, e.isCurrentlyLookingAway,
      e.isCurrentlyNoFace, e.showFocusWarning, e.focusWarningType,
      e.lastFaceDetection>>

\* C14: once stopDetection has returned (and until detection is started
\* again) no step delivers a violation to the sink or changes the tracker,
\* pathway or focus state, whatever completes in the meantime.
C14_QuietAfterStop ==
    [][~eng.isDetecting =>
          /\ delivered' = delivered
          /\ TrackerState(eng') = TrackerState(eng)
          /\ PathwayState(eng') = PathwayState(eng)
          /\ FocusState(eng') = FocusState(eng)]_vars

\* The pipelines of a tick that call a collaborator
Collaborators == {"objects", "faces", "gaze", "hands"}

\* C18: a run of runAIDetection that is over, or that waits for an answer
\* that will not come, has entered every pipeline whose model is loaded: a
\* pipeline that throws, rejects or is never called back keeps no other one
\* from running.
C18_PipelinesIsolated ==
    \A i \in DOMAIN runs :
        runs[i].pc \in {"done", "failed", "hung"} =>
            \A p \in Collaborators :
                eng[ModelOf[p]] => p \in runs[i].called

\* C19: no exception leaves a timer callback of either loop.
C19_NothingEscapesATick == ~escaped

\* C20: an initialised engine none of whose models is loaded is in basic
\* mode, and the loop that a following startDetection starts is the basic
\* one.
C20_NoModelsMeansBasicMode ==
    (/\ eng.isInitialized
     /\ \A p \in Collaborators : ~eng[ModelOf[p]])
        => /\ eng.useBasicDetection
           /\ getStatus(eng).mode = "basic"
           /\ eng.isDetecting =>
                 (eng.detectionInterval = "basic" /\ timers.fast = 0)

\* The sum of the four pathway counters of an engine
PathwaySum(e) ==
    e.violationPathways.directMobile + e.violationPathways.misclassifiedObject
        + e.violationPathways.personWithObject
        + e.violationPathways.highSuspiciousness

\* C21: an object tick raises the pathway counters by at most one for each
\* detection the detector returned in it.
C21_OneIncrementPerDetection ==
    [][\A f \in PathwayFrames, gap \in PathwayGaps :
          \/ PathwaySum(eng') <= PathwaySum(eng) + Len(f)
          \/ ~ObjectTick(f, gap)]_vars

\* The four pathway counters and the sustained-moderate counter are 0
AllPathwayCountersZero(e) ==
    /\ e.violationPathways = NoPathwayCounts
    /\ e.consecutiveSuspiciousFrames = 0

\* The detections ds go through processViolationPathways one after the
\* other from context c: after each one that has fired a pathway (the sink
\* has taken the violation and returned), all counters are 0
RECURSIVE ResetAfterEachFire(_, _)
ResetAfterEachFire(c, ds) ==
    IF ds = <<>> \/ c.thrown THEN TRUE
    ELSE LET c1 == processViolationPathways(c, Head(ds)) IN
         /\ (Len(c1.out) > Len(c.out) /\ ~c1.thrown)
                => AllPathwayCountersZero(c1.e)
         /\ ResetAfterEachFire(c1, Tail(ds))

C23_VeryHighFiresAtOnce ==
    [][\A gap \in PathwayGaps :
          \/ calculateSuspiciousnessScore(eng.detectedHands, Remote(66))
                 < VeryHighSuspiciousness
          \/ \E i \in DOMAIN emitted' :
                 /\ emitted'[i].message \in PathwayMessages
                 /\ emitted'[i].severity = "high"
          \/ ~ObjectTick(<<Remote(66)>>, gap)]_vars

\* C24: with a mobile detection of score 0.65 on every object tick from the
\* start, the sink has received a tracker violation for mobile once three
\* ticks have run.
C24_TrackerFiresByThirdTick ==
    ticks >= 3 => CountType(delivered, "mobile_detected_stateful") >= 1

\* C25: once the gaze estimator has reported looking away on 35 gaze frames
\* in a row (one gaze frame and one hands frame per pass), the sink has
\* received a focus_lost violation.
C25_SustainedAwayEmits ==
    ticks >= 2 * GazeFramesThreshold => "focus_lost" \in TypesOf(delivered)

\* C26: the held-object violation is never emitted in a tick in which a
\* pathway or the consecutive-detection counter fires.
C26_HeldObjectNotWithPathway ==
    "suspicious_object_held" \in MessagesOf(emitted)
        => MessagesOf(emitted)
               \cap (PathwayMessages \cup {"reliably_detected"}) = {}

\* One face, with a head angle beyond the threshold
OneFaceAway(faces) == Len(faces) = 1 /\ HeadTurnedAway(faces[1])

Reverse(s) == [i \in 1..Len(s) |-> s[Len(s) + 1 - i]]

\* C28: the tracker's classification of a tick does not depend on the order
\* of the detection list: once the tracker runs on every tick (the
\* categories are initialised), a tick leaves every tracked type as the same
\* tick with the list reversed would.
C28_BestMatchWhateverTheOrder ==
    [][\A f \in PairFrames :
          \/ ~eng.categoriesInitialized
          \/ eng'.trackedObjects =
                 detectObjectsWithAI(eng, Reverse(f), now').e.trackedObjects
          \/ ~ObjectTick(f, FaultGap)]_vars

\* C29: once the tracker runs on every tick, a tick whose only mobile
\* detection scores below the low tier leaves the track state of mobile as
\* a tick without detections would.
C29_BelowLowIsAbsent ==
    [][\/ ~eng.categoriesInitialized
       \/ eng'.trackedObjects["mobile"] =
              detectObjectsWithAI(eng, <<>>, now').e.trackedObjects["mobile"]
       \/ ~ObjectTick(<<Phone(10)>>, 3000)]_vars

\* C30: no tracked type, whatever the violation threshold it was registered
\* with, has its tracker violation emitted on two consecutive ticks.
C30_NoViolationOnConsecutiveTicks ==
    [][\A t \in DOMAIN eng.trackedObjects :
          \/ ticks' = ticks
          \/ t \o "_detected_stateful" \notin TypesOf(emitted)
          \/ t \o "_detected_stateful" \notin TypesOf(emitted')]_vars

\* An unknown-class detection below the unknown-object confidence
HasUnknownObject(predictions) ==
    \E i \in DOMAIN predictions :
        /\ predictions[i].class # "person"
        /\ ~KnownObject[predictions[i].class]
        /\ predictions[i].score < UnknownObjectConfidence

\* C31: every object tick whose detections hold no unknown-class object
\* below 0.6, the tick without detections included, leaves unknownObjectFrames
\* at 0.
C31_UnknownCounterResets ==
    [][\A f \in UnknownFrames :
          \/ HasUnknownObject(f)
          \/ eng'.unknownObjectFrames = 0
          \/ ~ObjectTick(f, FaultGap)]_vars

\* C32: the object pipeline of a pass scores its detections against the
\* hands that the hands model reports in that pass: what the pass emits is
\* what it emits with those hands in place from its start.
C32_HandsOfTheSamePass ==
    [][\A f \in PassFrames, fc \in PassFaces, g \in PassGaze,
          t \in BOOLEAN, h \in PathwayHands :
          \/ emitted' = runAIDetectionWith(
                            [eng EXCEPT !.detectedHands = h], f, fc, g, t, h,
                            now').out
          \/ ~Pass(f, fc, g, t, h)]_vars

\* The violations of the focus state machine, and those of the gaze and the
\* text pipelines that run after it
FocusTypes == {"no_face", "looking_away", "multiple_faces"}
LaterTypes == {"focus_lost", "books_notes_detected"}

FromObjectPipeline(v) == v.type \notin FocusTypes \cup LaterTypes

\* C33: of the violations a pass delivers, every one of the object pipeline
\* reaches the sink before any one of the focus state machine.
C33_ObjectsBeforeFocus ==
    \A i, j \in DOMAIN delivered :
        /\ delivered[i].timestamp = delivered[j].timestamp
        /\ FromObjectPipeline(delivered[i])
        /\ delivered[j].type \in FocusTypes
        => i < j

C33_Witness ==
    \E i, j \in DOMAIN delivered :
        /\ i < j
        /\ delivered[i].timestamp = delivered[j].timestamp
        /\ FromObjectPipeline(delivered[i])
        /\ delivered[j].type \in FocusTypes

\* C34: an object tick whose detections hold exactly one mobile-class
\* detection delivers at most one violation to the sink.
C34_OneViolationPerPhone ==
    [][\A f \in PhoneFrames, gap \in StreamGaps :
          \/ Len(delivered') <= Len(delivered) + 1
          \/ ~ObjectTick(f, gap)]_vars

\* C35: whatever calls of startDetection and stopDetection have been made, at
\* most one fast timer and one focus timer are scheduled, and none is while
\* the engine is stopped.
C35_OneTimerOfEachKind ==
    /\ timers.fast <= 1
    /\ timers.focus <= 1
    /\ ~eng.isDetecting => timers.fast = 0 /\ timers.focus = 0

\* C40: a firing of the focus timer leaves the engine as it was and neither
\* emits nor delivers a violation.
C40_FocusTimerDoesNothing ==
    [][\/ /\ eng' = eng
          /\ emitted' = <<>>
          /\ delivered' = delivered
       \/ ~FocusTimer(FocusGap)]_vars

\* The focus timer has fired while the engine is detecting and the face has
\* been missing for the no-face threshold or longer, and nothing was reported
C40_Witness ==
    /\ (now - StartTime) % FaultGap # 0
    /\ eng.isDetecting
    /\ eng.isCurrentlyNoFace
    /\ now - eng.noFaceStartTime >= NoFaceThreshold
    /\ delivered = <<>>

\* C36: with a sink that does not throw, the consecutiveDetections of every
\* tracked type is at most the type's violation threshold, and a tracker
\* violation is "high" only when the type's latest confidence is 0.8 or more.
C36_CountWithinThreshold ==
    \A t \in DOMAIN eng.trackedObjects :
        /\ eng.trackedObjects[t].consecutiveDetections
               <= ViolationThresholdOf(eng, t)
        /\ \A i \in DOMAIN emitted :
               /\ emitted[i].type = t \o "_detected_stateful"
               /\ emitted[i].severity = "high"
               => eng.trackedObjects[t].confidence >= TrackerHigh

\* C37: the personWithObject counter, the highSuspiciousness counter and
\* consecutiveSuspiciousFrames are 0 in every state that object ticks reach.
C37_LaterPathwaysNeverCount ==
    /\ eng.violationPathways.personWithObject = 0
    /\ eng.violationPathways.highSuspiciousness = 0
    /\ eng.consecutiveSuspiciousFrames = 0

\* The arbiter has counted a detection that is not of a phone class, with a
\* hand in view
C37_Witness ==
    /\ eng.violationPathways.misclassifiedObject > 0
    /\ eng.detectedHands # <<>>

\* C38: the counters of pathways 1 and 2 never decay. A tick that hands no
\* mobile detection to the arbiter leaves them as they are, and a counter
\* goes down only on a tick in which a pathway fires and resets it.
C38_PathwayCountersNeverDecay ==
    [][/\ \A n \in {"directMobile", "misclassifiedObject"} :
             \/ eng'.violationPathways[n] >= eng.violationPathways[n]
             \/ MessagesOf(emitted') \cap PathwayMessages # {}
       /\ \A f \in PathwayFrames, gap \in PathwayGaps :
             \/ checkMobilePhoneDetections(eng.detectedHands, f) # <<>>
             \/ eng'.violationPathways = eng.violationPathways
             \/ ~ObjectTick(f, gap)]_vars

\* Pathway 1 fires on a tick that follows a tick without a mobile detection:
\* the held-object timer has only just been started, and not because it had
\* fired, the sink having received nothing before this tick
C38_Witness ==
    /\ "direct_mobile_detection" \in MessagesOf(emitted)
    /\ eng.lastSuspiciousObjectTime = now
    /\ eng.onViolationDetected = "record"
    /\ \A i \in DOMAIN delivered : delivered[i].timestamp = now

\* C39: after every face tick the focus state is consistent. Each flag holds
\* exactly when its start time is set, a shown warning has the type of a
\* flag that holds, and there is no warning type without a warning.
C39_FocusStateConsistent ==
    /\ eng.isCurrentlyNoFace <=> eng.noFaceStartTime # Null
    /\ eng.isCurrentlyLookingAway <=> eng.lookingAwayStartTime # Null
    /\ eng.showFocusWarning =>
          \/ eng.focusWarningType = "no_face" /\ eng.isCurrentlyNoFace
          \/ eng.focusWarningType = "looking_away"
                /\ eng.isCurrentlyLookingAway
    /\ ~eng.showFocusWarning => eng.focusWarningType = "null"

\* The no-face warning is shown after the looking-away warning has been
C39_Witness ==
    /\ eng.showFocusWarning
    /\ eng.focusWarningType = "no_face"
    /\ "looking_away" \in TypesOf(delivered)

====
